---- MODULE Spec2Model ----
(***************************************************************************)
(* A model of the report aggregation engine of simplifi-tool               *)
(* (src/report_builder.py): BaseReport._to_dataframe, apply_filters, the   *)
(* six report generators and the ReportBuilder facade.                     *)
(*                                                                         *)
(* Representation of values                                                *)
(*   text        a sequence of one-character strings, <<"F","o","o","d">>  *)
(*   NaNText     a missing text cell (pandas NaN in an object column)      *)
(*   amount cell <<n>> for the number n, <<>> for NaN                      *)
(*   date cell   <<y, m, d>> for a timestamp, <<>> for NaT                 *)
(*   raw amount  <<"num", n>> for a number, <<"str">> for unparseable text *)
(*   raw date    <<y, m, d>>, the ISO string "YYYY-MM-DD"; a triple that   *)
(*               is no calendar date is an unparseable string              *)
(*   option      <<>> for None, <<v>> for the value v                      *)
(*   fraction    [num, den], the exact quotient num / den of a float       *)
(*               division                                                  *)
(*   a transaction is a function from the keys it carries to raw values    *)
(*   a heap      the objects of a report call, a sequence: the transaction *)
(*               list of the builder and the DataFrames of the report; an  *)
(*               address is a position in it                               *)
(*   a DataFrame is [columns |-> the set of column names,                  *)
(*                   index |-> the sequence of the row labels it holds,    *)
(*                   data |-> the row of each label]; a row is a function  *)
(*                   from the columns to cells                             *)
(*                                                                         *)
(* Specifications                                                          *)
(*   Spec        one builder, one report call (main.py, webapp.py)         *)
(*   SpecReuse   one builder, any sequence of report calls                 *)
(*               (example_reports.py)                                      *)
(*   SpecFilter  one BaseReport, one apply_filters call                    *)
(*   SpecBucket  one builder, one Cash Flow or Trend Analysis call on      *)
(*               dates around the ends of weeks, months, quarters, years   *)
(*   SpecRank    one builder, one Category Analysis, Merchant Analysis or  *)
(*               Profit & Loss call on records that share merchants and    *)
(*               categories                                                *)
(*   SpecTop     one builder, one Merchant Analysis call on more merchants *)
(*               than the default top_n                                    *)
(*   SpecCustom  one builder, one custom_report call                       *)
(*   SpecTrend   one builder, one Trend Analysis call on expenses of       *)
(*               several categories in one period                          *)
(*   SpecWeb     the session store of webapp.py: login, logout and request *)
(*               handlers of one browser and cleanup_expired_sessions,     *)
(*               interleaved at their awaits                               *)
(*                                                                         *)
(* Web application state                                                   *)
(*   user_sessions       the session ids that hold a client; the client of *)
(*                       a session is named by its session id              *)
(*   session_timestamps  session id -> creation time, in minutes           *)
(*   now                 datetime.now(), in minutes                        *)
(*   closed              session id -> the number of close() calls made on *)
(*                       its client                                        *)
(*   handlers            the running request handlers, each at the await   *)
(*                       it is suspended in                                *)
(*   cookie              the session_id of the browser's session cookie    *)
(*   issued              the number of session ids created so far          *)
(***************************************************************************)
EXTENDS Integers, Sequences, FiniteSets, TLC

VARIABLES transactions, call, result, initial, seen,
          user_sessions, session_timestamps, now, closed, handlers, cookie,
          issued

(* The state of the report builder and the state of the web application *)
reportvars == <<transactions, call, result, initial, seen>>

webvars ==
  <<user_sessions, session_timestamps, now, closed, handlers, cookie, issued>>

vars == <<reportvars, webvars>>

-----------------------------------------------------------------------------
(* Bounds of the model *)

MaxTxns == 2

(* The longest transaction list of SpecRank *)
MaxRanked == 3

(* The request handlers that run at the same time *)
MaxHandlers == 2

(* The most merchants of a transaction list of SpecTop: one more than the  *)
(* default top_n                                                           *)
MaxMerchants == 21

(* The sessions created in one behaviour *)
MaxSessions == 2

(* The last minute of the clock *)
MaxClock == 122

-----------------------------------------------------------------------------
(* Options, numbers, text *)

None == <<>>

Some(v) == <<v>>

NaN == <<>>

Num(n) == <<n>>

NaT == <<>>

NaNText == <<"nan">>

RawNum(n) == <<"num", n>>

RawBadAmount == <<"str">>

Abs(n) == IF n < 0 THEN -n ELSE n

Frac(n, d) == [num |-> n, den |-> d]

ZeroFrac == [num |-> 0, den |-> 1]

Range(s) == {s[i] : i \in DOMAIN s}

RECURSIVE SumSeq(_)
SumSeq(s) == IF s = <<>> THEN 0 ELSE Head(s) + SumSeq(Tail(s))

(* The printable ASCII characters in code order: Printable[i] has code 31 + i *)
(* (the double quote, the backslash and the backtick are written by name)    *)
Printable ==
  <<" ", "!", "dquote", "#", "$", "%", "&", "'", "(", ")", "*", "+", ",", "-", ".", "/",
    "0", "1", "2", "3", "4", "5", "6", "7", "8", "9", ":", ";", "<", "=", ">", "?",
    "@", "A", "B", "C", "D", "E", "F", "G", "H", "I", "J", "K", "L", "M", "N", "O",
    "P", "Q", "R", "S", "T", "U", "V", "W", "X", "Y", "Z", "[", "backslash", "]", "^", "_",
    "backtick", "a", "b", "c", "d", "e", "f", "g", "h", "i", "j", "k", "l", "m", "n", "o",
    "p", "q", "r", "s", "t", "u", "v", "w", "x", "y", "z", "{", "|", "}", "~">>

Code(c) == 31 + (CHOOSE i \in DOMAIN Printable : Printable[i] = c)

(* str.lower() on one character *)
LowerChar(c) ==
  LET k == Code(c) IN IF k >= 65 /\ k <= 90 THEN Printable[k + 32 - 31] ELSE c

(* str.lower() *)
Lower(s) == [i \in DOMAIN s |-> LowerChar(s[i])]

(* The order of Python on str: lexicographic by code point *)
RECURSIVE StrLess(_, _)
StrLess(a, b) ==
  IF b = <<>> THEN FALSE
  ELSE IF a = <<>> THEN TRUE
  ELSE IF Head(a) # Head(b) THEN Code(Head(a)) < Code(Head(b))
  ELSE StrLess(Tail(a), Tail(b))

(* sorted() of a set of distinct str *)
SortedStrs(S) ==
  [p \in 1..Cardinality(S) |->
     CHOOSE x \in S : Cardinality({y \in S : StrLess(y, x)}) = p - 1]

(* list.sort(key=..., reverse=True), and sort_values(ascending=False) on a  *)
(* frame of fewer than 16 rows: descending by key, ties in their old order *)
SortDescBy(s, key) ==
  LET Rank(i) == Cardinality({j \in DOMAIN s :
                    \/ key[j] > key[i]
                    \/ key[j] = key[i] /\ j < i})
  IN [p \in DOMAIN s |-> s[CHOOSE i \in DOMAIN s : Rank(i) = p - 1]]

-----------------------------------------------------------------------------
(* Calendar dates *)

IsLeap(y) == (y % 4 = 0 /\ y % 100 # 0) \/ y % 400 = 0

DaysInMonth(y, m) ==
  IF m = 2 THEN (IF IsLeap(y) THEN 29 ELSE 28)
  ELSE IF m \in {4, 6, 9, 11} THEN 30 ELSE 31

IsCalendarDate(d) ==
  /\ Len(d) = 3
  /\ d[2] \in 1..12
  /\ d[3] >= 1 /\ d[3] <= DaysInMonth(d[1], d[2])

(* pd.to_datetime(value, errors='coerce') of one cell *)
ToDatetime(raw) == IF IsCalendarDate(raw) THEN raw ELSE NaT

(* pd.to_numeric(value, errors='coerce') of one cell *)
ToNumeric(raw) == IF raw[1] = "num" THEN Num(raw[2]) ELSE NaN

(* Timestamp order *)
DateLeq(a, b) ==
  \/ a[1] < b[1]
  \/ a[1] = b[1] /\ a[2] < b[2]
  \/ a[1] = b[1] /\ a[2] = b[2] /\ a[3] <= b[3]

-----------------------------------------------------------------------------
(* BaseReport._to_dataframe *)

EmptyFrame == [columns |-> {}, index |-> <<>>, data |-> <<>>]

DateColumns == {"date", "postedDate", "transactionDate"}

MissingCell(col) ==
  IF col \in DateColumns THEN NaT ELSE IF col = "amount" THEN NaN ELSE NaNText

ConvertCell(col, raw) ==
  IF col \in DateColumns THEN ToDatetime(raw)
  ELSE IF col = "amount" THEN ToNumeric(raw)
  ELSE raw

ToDataframe(txs) ==
  IF txs = <<>> THEN EmptyFrame
  ELSE LET cols == UNION {DOMAIN txs[i] : i \in DOMAIN txs}
       IN [columns |-> cols,
           index |-> [i \in DOMAIN txs |-> i],
           data |-> [i \in DOMAIN txs |->
                      [c \in cols |-> IF c \in DOMAIN txs[i]
                                      THEN ConvertCell(c, txs[i][c])
                                      ELSE MissingCell(c)]]]

(* The rows of a frame, in order *)
Rows(df) == [k \in DOMAIN df.index |-> df.data[df.index[k]]]

(* len(df) *)
NRows(df) == Len(df.index)

(* DataFrame.empty: no rows or no columns *)
IsEmpty(df) == df.index = <<>> \/ df.columns = {}

(* df[mask]: the rows whose mask is True, labels and order kept *)
Where(df, mask) ==
  [df EXCEPT !.index = SelectSeq(df.index, LAMBDA i : mask[i])]

(* Series.sum() with skipna: NaN cells count as 0 *)
AmountOf(row) == IF row.amount = NaN THEN 0 ELSE row.amount[1]

SumAmount(rows) == SumSeq([i \in DOMAIN rows |-> AmountOf(rows[i])])

(* df['amount'] > 0 and df['amount'] < 0: False on NaN *)
IsPositive(row) == row.amount # NaN /\ row.amount[1] > 0

IsNegative(row) == row.amount # NaN /\ row.amount[1] < 0

-----------------------------------------------------------------------------
(* Series.str.contains(pattern, case=False, na=False): a regular expression *)
(* search. The characters of the model are letters, digits and the three    *)
(* metacharacters . * and | ; every other character is matched literally.   *)

(* '|'.join(terms) *)
RECURSIVE JoinBar(_)
JoinBar(terms) ==
  IF terms = <<>> THEN <<>>
  ELSE IF Len(terms) = 1 THEN terms[1]
  ELSE terms[1] \o <<"|">> \o JoinBar(Tail(terms))

(* The alternatives of a pattern: split at each | *)
RECURSIVE Branches(_)
Branches(pat) ==
  IF \E i \in DOMAIN pat : pat[i] = "|"
  THEN LET i == CHOOSE k \in DOMAIN pat :
                   pat[k] = "|" /\ \A j \in 1..(k - 1) : pat[j] # "|"
       IN <<SubSeq(pat, 1, i - 1)>> \o Branches(SubSeq(pat, i + 1, Len(pat)))
  ELSE <<pat>>

(* re.compile fails: a * with nothing to repeat, or a repeated * *)
BranchCompiles(b) ==
  \A i \in DOMAIN b : b[i] = "*" => (i > 1 /\ b[i - 1] # "*")

RegexCompiles(pat) ==
  \A k \in DOMAIN Branches(pat) : BranchCompiles(Branches(pat)[k])

(* One pattern character against one subject character, re.IGNORECASE *)
AtomMatches(a, c) == a = "." \/ LowerChar(a) = LowerChar(c)

(* The branch b from position k on matches s at position i *)
RECURSIVE MatchHere(_, _, _, _)
MatchHere(b, k, s, i) ==
  IF k > Len(b) THEN TRUE
  ELSE IF k < Len(b) /\ b[k + 1] = "*"
  THEN \E n \in 0..(Len(s) - i + 1) :
          /\ \A j \in i..(i + n - 1) : AtomMatches(b[k], s[j])
          /\ MatchHere(b, k + 2, s, i + n)
  ELSE /\ i <= Len(s)
       /\ AtomMatches(b[k], s[i])
       /\ MatchHere(b, k + 1, s, i + 1)

(* re.search(pat, s, re.IGNORECASE) is not None, for a pattern that compiles *)
RegexSearch(pat, s) ==
  \E k \in DOMAIN Branches(pat) : \E i \in 1..(Len(s) + 1) :
     MatchHere(Branches(pat)[k], 1, s, i)

(* One cell of str.contains(pat, case=False, na=False) *)
Contains(cell, pat) == cell # NaNText /\ RegexSearch(pat, cell)

(* One cell of str.lower().isin([c.lower() for c in values]) *)
LowerIsIn(cell, values) ==
  cell # NaNText /\ \E k \in DOMAIN values : Lower(cell) = Lower(values[k])

-----------------------------------------------------------------------------
(* ReportFilter and BaseReport.apply_filters *)

NoFilter ==
  [start_date |-> None, end_date |-> None, categories |-> None,
   merchants |-> None, accounts |-> None, min_amount |-> None,
   max_amount |-> None, description_contains |-> None,
   notes_contains |-> None, exclude_categories |-> None,
   exclude_merchants |-> None]

(* Truth value of an optional str or list: None and the empty value are false *)
Truthy(opt) == opt # None /\ opt[1] # <<>>

(* The regular-expression filters that apply_filters runs on a frame *)
PatternsUsed(df, f) ==
  (IF Truthy(f.merchants) /\ "merchant" \in df.columns
   THEN {JoinBar(f.merchants[1])} ELSE {})
  \cup (IF Truthy(f.exclude_merchants) /\ "merchant" \in df.columns
        THEN {JoinBar(f.exclude_merchants[1])} ELSE {})
  \cup (IF Truthy(f.description_contains) /\ "description" \in df.columns
        THEN {f.description_contains[1]} ELSE {})
  \cup (IF Truthy(f.notes_contains) /\ "notes" \in df.columns
        THEN {f.notes_contains[1]} ELSE {})

(* apply_filters raises: a filter date that does not parse, or a pattern   *)
(* that does not compile (both are evaluated even when no row is left)     *)
FiltersRaise(df, f) ==
  /\ ~IsEmpty(df)
  /\ \/ Truthy(f.start_date) /\ "date" \in df.columns
          /\ ~IsCalendarDate(f.start_date[1])
     \/ Truthy(f.end_date) /\ "date" \in df.columns
          /\ ~IsCalendarDate(f.end_date[1])
     \/ \E pat \in PatternsUsed(df, f) : ~RegexCompiles(pat)

(* The error apply_filters raises: the statements run in order, so a       *)
(* filter date that does not parse (lines 120-124, a ValueError) comes     *)
(* before a pattern that does not compile (lines 141-163, an re.error)     *)
FilterError(df, f) ==
  IF \/ Truthy(f.start_date) /\ "date" \in df.columns
          /\ ~IsCalendarDate(f.start_date[1])
     \/ Truthy(f.end_date) /\ "date" \in df.columns
          /\ ~IsCalendarDate(f.end_date[1])
  THEN "ValueError"
  ELSE "re.error"

FilterStartDate(df, f) ==
  IF Truthy(f.start_date) /\ "date" \in df.columns
  THEN Where(df, [i \in DOMAIN df.data |->
                   df.data[i].date # NaT /\ DateLeq(f.start_date[1], df.data[i].date)])
  ELSE df

FilterEndDate(df, f) ==
  IF Truthy(f.end_date) /\ "date" \in df.columns
  THEN Where(df, [i \in DOMAIN df.data |->
                   df.data[i].date # NaT /\ DateLeq(df.data[i].date, f.end_date[1])])
  ELSE df

FilterMinAmount(df, f) ==
  IF f.min_amount # None /\ "amount" \in df.columns
  THEN Where(df, [i \in DOMAIN df.data |->
                   df.data[i].amount # NaN /\ df.data[i].amount[1] >= f.min_amount[1]])
  ELSE df

FilterMaxAmount(df, f) ==
  IF f.max_amount # None /\ "amount" \in df.columns
  THEN Where(df, [i \in DOMAIN df.data |->
                   df.data[i].amount # NaN /\ df.data[i].amount[1] <= f.max_amount[1]])
  ELSE df

FilterCategories(df, f) ==
  IF Truthy(f.categories) /\ "category" \in df.columns
  THEN Where(df, [i \in DOMAIN df.data |->
                   LowerIsIn(df.data[i].category, f.categories[1])])
  ELSE df

(* A deny-list that also drops the rows with no category *)
FilterExcludeCategoriesStrict(df, f) ==
  IF Truthy(f.exclude_categories) /\ "category" \in df.columns
  THEN Where(df, [i \in DOMAIN df.data |->
                   /\ df.data[i].category # NaNText
                   /\ ~LowerIsIn(df.data[i].category, f.exclude_categories[1])])
  ELSE df

FilterExcludeCategories(df, f) ==
  IF Truthy(f.exclude_categories) /\ "category" \in df.columns
  THEN Where(df, [i \in DOMAIN df.data |->
                   ~LowerIsIn(df.data[i].category, f.exclude_categories[1])])
  ELSE df

FilterMerchants(df, f) ==
  IF Truthy(f.merchants) /\ "merchant" \in df.columns
  THEN Where(df, [i \in DOMAIN df.data |->
                   Contains(df.data[i].merchant, JoinBar(f.merchants[1]))])
  ELSE df

FilterExcludeMerchants(df, f) ==
  IF Truthy(f.exclude_merchants) /\ "merchant" \in df.columns
  THEN Where(df, [i \in DOMAIN df.data |->
                   ~Contains(df.data[i].merchant, JoinBar(f.exclude_merchants[1]))])
  ELSE df

FilterAccounts(df, f) ==
  IF Truthy(f.accounts) /\ "account" \in df.columns
  THEN Where(df, [i \in DOMAIN df.data |->
                   LowerIsIn(df.data[i].account, f.accounts[1])])
  ELSE df

FilterDescription(df, f) ==
  IF Truthy(f.description_contains) /\ "description" \in df.columns
  THEN Where(df, [i \in DOMAIN df.data |->
                   Contains(df.data[i].description, f.description_contains[1])])
  ELSE df

FilterNotes(df, f) ==
  IF Truthy(f.notes_contains) /\ "notes" \in df.columns
  THEN Where(df, [i \in DOMAIN df.data |->
                   Contains(df.data[i].notes, f.notes_contains[1])])
  ELSE df

(* apply_filters on a frame, for filters that do not raise *)
ApplyFilters(df, f) ==
  IF IsEmpty(df) THEN df
  ELSE LET d1 == FilterStartDate(df, f)
           d2 == FilterEndDate(d1, f)
           d3 == FilterMinAmount(d2, f)
           d4 == FilterMaxAmount(d3, f)
           d5 == FilterCategories(d4, f)
           d6 == FilterExcludeCategories(d5, f)
           d7 == FilterMerchants(d6, f)
           d8 == FilterExcludeMerchants(d7, f)
           d9 == FilterAccounts(d8, f)
           d10 == FilterDescription(d9, f)
       IN FilterNotes(d10, f)

-----------------------------------------------------------------------------
(* Results: a report call returns its data or raises *)

Ok(data) == [raised |-> FALSE, data |-> data]

Raise(err) == [raised |-> TRUE, error |-> err]

-----------------------------------------------------------------------------
(* Objects. The transaction list a builder was given and the DataFrames a  *)
(* report makes are objects of a heap, a sequence of objects; an address   *)
(* is a position in it. The names of the code (self.transactions, self.df, *)
(* df) hold addresses: an assignment to a column changes the object the    *)
(* name holds, for every name that holds it. A DataFrame that no statement *)
(* assigns to (income_df, a groupby result) is used as a value.            *)

(* A new object, at the next free address *)
Alloc(heap, obj) == Append(heap, obj)

(* ReportBuilder.__init__: the builder keeps the list it was given, not a  *)
(* copy of it                                                              *)
ReportBuilder(txs) == [heap |-> Alloc(<<>>, txs), transactions |-> 1]

(* BaseReport.__init__ on the list at an address: self.transactions is     *)
(* that list;                                                              *)
(* self.df is the new frame _to_dataframe makes from the values of its     *)
(* records (pd.DataFrame copies them, and lines 96 and 100 convert the     *)
(* columns of that frame before another name holds it)                     *)
BaseReport(heap, list) ==
  [heap |-> Alloc(heap, ToDataframe(heap[list])),
   transactions |-> list,
   df |-> Len(heap) + 1]

(* self.apply_filters(filters) of the report self: line 114 copies self.df *)
(* and every filter that applies selects rows into a new frame, so df is a *)
(* new object whether a filter applies or not. A filter that raises ends   *)
(* the call.                                                               *)
SelfApplyFilters(self, f) ==
  IF FiltersRaise(self.heap[self.df], f)
  THEN [heap |-> self.heap,
        transactions |-> self.transactions,
        df |-> self.df,
        raised |-> TRUE,
        result |-> Raise(FilterError(self.heap[self.df], f))]
  ELSE [heap |-> Alloc(self.heap, ApplyFilters(self.heap[self.df], f)),
        transactions |-> self.transactions,
        df |-> Len(self.heap) + 1,
        raised |-> FALSE,
        result |-> Ok(<<>>)]

(* df[col] = cells: the column is set in the frame at the address df *)
SetColumn(heap, df, col, cells) ==
  LET old == heap[df]
  IN [heap EXCEPT ![df] =
        [columns |-> old.columns \cup {col},
         index |-> old.index,
         data |-> [i \in DOMAIN old.data |->
                    [c \in old.columns \cup {col} |->
                       IF c = col THEN cells[i] ELSE old.data[i][c]]]]]

(* What a call leaves: the heap and the value returned or exception raised *)
Leaves(heap, r) == [heap |-> heap, result |-> r]

-----------------------------------------------------------------------------
(* Formatting of dates *)

Digit(n) == Printable[n + 17]

(* n in decimal, zero-padded to w digits *)
RECURSIVE Digits(_, _)
Digits(n, w) ==
  IF w = 0 THEN <<>> ELSE Digits(n \div 10, w - 1) \o <<Digit(n % 10)>>

(* The day first: strftime('%d-%m-%Y') *)
IsoTextDayFirst(d) ==
  Digits(d[3], 2) \o <<"-">> \o Digits(d[2], 2) \o <<"-">> \o Digits(d[1], 4)

(* strftime('%Y-%m-%d'), also the text of an ISO date string *)
IsoText(d) == Digits(d[1], 4) \o <<"-">> \o Digits(d[2], 2) \o <<"-">> \o Digits(d[3], 2)

-----------------------------------------------------------------------------
(* groupby(col): the groups of the non-missing keys, in sorted key order *)

GroupKeys(rows, col) == SortedStrs({rows[i][col] : i \in DOMAIN rows} \ {NaNText})

GroupRows(rows, col, key) == SelectSeq(rows, LAMBDA r : r[col] = key)

(* agg count: the number of non-NaN amounts *)
CountAmount(rows) == Len(SelectSeq(rows, LAMBDA r : r.amount # NaN))

(* agg mean: sum / count; den = 0 stands for NaN *)
MeanAmount(rows) == Frac(SumAmount(rows), CountAmount(rows))

-----------------------------------------------------------------------------
(* ProfitAndLossReport *)

GetPeriodDescription(f) ==
  IF Truthy(f.start_date) /\ Truthy(f.end_date)
  THEN IsoText(f.start_date[1]) \o <<" ", "t", "o", " ">> \o IsoText(f.end_date[1])
  ELSE IF Truthy(f.start_date)
  THEN <<"F", "r", "o", "m", " ">> \o IsoText(f.start_date[1])
  ELSE IF Truthy(f.end_date)
  THEN <<"U", "n", "t", "i", "l", " ">> \o IsoText(f.end_date[1])
  ELSE <<"A", "l", "l", " ", "t", "i", "m", "e">>

IncomeByCategory(rows, total_income) ==
  LET keys == GroupKeys(rows, "category")
      Entry(k) ==
        LET g == GroupRows(rows, "category", keys[k])
        IN [category |-> keys[k],
            total |-> SumAmount(g),
            count |-> CountAmount(g),
            average |-> MeanAmount(g),
            percentage_of_income |->
              IF total_income > 0 THEN Frac(SumAmount(g) * 100, total_income)
              ELSE ZeroFrac]
  IN SortDescBy([k \in DOMAIN keys |-> Entry(k)],
                [k \in DOMAIN keys |-> Entry(k).total])

(* The expense categories in falling order of the signed sum *)
ExpensesByCategorySigned(rows, total_expenses) ==
  LET keys == GroupKeys(rows, "category")
      Entry(k) ==
        LET g == GroupRows(rows, "category", keys[k])
            expense_amount == Abs(SumAmount(g))
        IN [category |-> keys[k],
            total |-> expense_amount,
            count |-> CountAmount(g),
            average |-> Frac(Abs(SumAmount(g)), CountAmount(g)),
            percentage_of_expenses |->
              IF total_expenses > 0 THEN Frac(expense_amount * 100, total_expenses)
              ELSE ZeroFrac]
  IN SortDescBy([k \in DOMAIN keys |-> Entry(k)],
                [k \in DOMAIN keys |-> SumAmount(GroupRows(rows, "category", keys[k]))])

ExpensesByCategory(rows, total_expenses) ==
  LET keys == GroupKeys(rows, "category")
      Entry(k) ==
        LET g == GroupRows(rows, "category", keys[k])
            expense_amount == Abs(SumAmount(g))
        IN [category |-> keys[k],
            total |-> expense_amount,
            count |-> CountAmount(g),
            average |-> Frac(Abs(SumAmount(g)), CountAmount(g)),
            percentage_of_expenses |->
              IF total_expenses > 0 THEN Frac(expense_amount * 100, total_expenses)
              ELSE ZeroFrac]
  IN SortDescBy([k \in DOMAIN keys |-> Entry(k)],
                [k \in DOMAIN keys |-> Entry(k).total])

(* Expenses added instead of subtracted *)
NetIncomeAdded(total_income, total_expenses) == total_income + total_expenses

(* total_income - total_expenses *)
NetIncome(total_income, total_expenses) == total_income - total_expenses

(* The result of the empty branch *)
ProfitAndLossEmpty(f) ==
  [report_type |-> "Profit & Loss",
   period |-> GetPeriodDescription(f),
   total_income |-> 0,
   total_expenses |-> 0,
   net_income |-> 0,
   income_by_category |-> <<>>,
   expenses_by_category |-> <<>>,
   transaction_count |-> 0]

(* The report of a frame that is not empty *)
ProfitAndLossComputed(df, f) ==
  IF "amount" \notin df.columns THEN Raise("KeyError")
  ELSE LET income_df == Where(df, [i \in DOMAIN df.data |-> IsPositive(df.data[i])])
           expense_df == Where(df, [i \in DOMAIN df.data |-> IsNegative(df.data[i])])
           total_income ==
             IF ~IsEmpty(income_df) THEN SumAmount(Rows(income_df)) ELSE 0
           total_expenses ==
             IF ~IsEmpty(expense_df) THEN Abs(SumAmount(Rows(expense_df))) ELSE 0
       IN Ok([report_type |-> "Profit & Loss",
              period |-> GetPeriodDescription(f),
              total_income |-> total_income,
              total_expenses |-> total_expenses,
              net_income |-> NetIncome(total_income, total_expenses),
              income_by_category |->
                IF ~IsEmpty(income_df) /\ "category" \in df.columns
                THEN IncomeByCategory(Rows(income_df), total_income)
                ELSE <<>>,
              expenses_by_category |->
                IF ~IsEmpty(expense_df) /\ "category" \in df.columns
                THEN ExpensesByCategory(Rows(expense_df), total_expenses)
                ELSE <<>>,
              transaction_count |-> NRows(df),
              income_transaction_count |-> NRows(income_df),
              expense_transaction_count |-> NRows(expense_df)])

(* A generator that lost its empty branch *)
ProfitAndLossUnguarded(df, f) == ProfitAndLossComputed(df, f)

ProfitAndLossData(df, f) ==
  IF IsEmpty(df) THEN Ok(ProfitAndLossEmpty(f)) ELSE ProfitAndLossComputed(df, f)

(* ProfitAndLossReport(transactions, filters).to_dict() *)
ProfitAndLossReport(builder, f) ==
  LET m == SelfApplyFilters(BaseReport(builder.heap, builder.transactions), f)
  IN IF m.raised THEN Leaves(m.heap, m.result)
     ELSE Leaves(m.heap, ProfitAndLossData(m.heap[m.df], f))

-----------------------------------------------------------------------------
(* Time bucketing: the period column of CashFlowReport and                 *)
(* TrendAnalysisReport                                                     *)

Groupings == {"daily", "weekly", "monthly", "quarterly", "yearly"}

(* date.toordinal(): days since 0001-01-01, which is day 1 *)
DaysBeforeYear(y) ==
  365 * (y - 1) + ((y - 1) \div 4) - ((y - 1) \div 100) + ((y - 1) \div 400)

RECURSIVE DaysBeforeMonth(_, _)
DaysBeforeMonth(y, m) ==
  IF m = 1 THEN 0 ELSE DaysBeforeMonth(y, m - 1) + DaysInMonth(y, m - 1)

Ordinal(d) == DaysBeforeYear(d[1]) + DaysBeforeMonth(d[1], d[2]) + d[3]

(* date.fromordinal() *)
FromOrdinal(n) ==
  LET y == CHOOSE yy \in (n \div 366)..(n \div 365 + 1) :
                DaysBeforeYear(yy) < n /\ n <= DaysBeforeYear(yy + 1)
      m == CHOOSE mm \in 1..12 :
                /\ DaysBeforeYear(y) + DaysBeforeMonth(y, mm) < n
                /\ n <= DaysBeforeYear(y) + DaysBeforeMonth(y, mm) + DaysInMonth(y, mm)
  IN <<y, m, n - DaysBeforeYear(y) - DaysBeforeMonth(y, m)>>

(* date.weekday(): Monday is 0 *)
Weekday(d) == (Ordinal(d) + 6) % 7

(* Weeks that run from Sunday to Saturday *)
WeekTextFromSunday(d) ==
  LET start == Ordinal(d) - ((Weekday(d) + 1) % 7)
  IN IsoText(FromOrdinal(start)) \o <<"/">> \o IsoText(FromOrdinal(start + 6))

(* str(Period(d, 'W')): the week from Monday to Sunday, 'start/end' *)
WeekText(d) ==
  LET start == Ordinal(d) - Weekday(d)
  IN IsoText(FromOrdinal(start)) \o <<"/">> \o IsoText(FromOrdinal(start + 6))

(* str(Period(d, 'Q')): year, Q, quarter number *)
QuarterText(d) == Digits(d[1], 4) \o <<"Q">> \o <<Digit(((d[2] - 1) \div 3) + 1)>>

(* The period cell of a date cell. dt.strftime leaves NaN for NaT;          *)
(* to_period(...).astype(str) gives the text 'NaT'                         *)
PeriodLabel(grouping, d) ==
  IF grouping = "daily" THEN (IF d = NaT THEN NaNText ELSE IsoText(d))
  ELSE IF grouping = "weekly"
  THEN (IF d = NaT THEN <<"N", "a", "T">> ELSE WeekText(d))
  ELSE IF grouping = "monthly"
  THEN (IF d = NaT THEN NaNText
        ELSE Digits(d[1], 4) \o <<"-">> \o Digits(d[2], 2))
  ELSE IF grouping = "quarterly"
  THEN (IF d = NaT THEN <<"N", "a", "T">> ELSE QuarterText(d))
  ELSE (IF d = NaT THEN NaNText ELSE Digits(d[1], 4))

(* A report that stores the period of each row in its transaction record *)
AddPeriodInRecords(m, grouping) ==
  LET df == m.heap[m.df]
      kept == Range(df.index)
  IN [m.heap EXCEPT ![m.transactions] =
        [i \in DOMAIN @ |->
           IF i \in kept
           THEN [k \in DOMAIN @[i] \cup {"period"} |->
                   IF k = "period" THEN PeriodLabel(grouping, df.data[i].date)
                   ELSE @[i][k]]
           ELSE @[i]]]

(* df['date'] = pd.to_datetime(df['date']) and df['period'] = ...: both    *)
(* columns are set in the frame apply_filters returned                     *)
AddPeriod(m, grouping) ==
  LET df == m.heap[m.df]
      dated == SetColumn(m.heap, m.df, "date",
                         [i \in DOMAIN df.data |-> df.data[i].date])
  IN SetColumn(dated, m.df, "period",
               [i \in DOMAIN df.data |-> PeriodLabel(grouping, df.data[i].date)])

(* df['period'].unique() as a set *)
PeriodSet(rows, grouping) == {PeriodLabel(grouping, rows[i].date) : i \in DOMAIN rows}

(* sorted(values) raises TypeError when it must compare NaN with a str *)
SortedRaises(S) == NaNText \in S /\ Cardinality(S) > 1

(* sorted(values) of str values, or of NaN alone *)
SortedValues(S) == IF S = {NaNText} THEN <<NaNText>> ELSE SortedStrs(S)

(* df[df[col] == value]: NaN equals nothing *)
RowsEqual(rows, cells, value) ==
  IF value = NaNText THEN <<>>
  ELSE LET kept == SelectSeq([k \in DOMAIN rows |-> k],
                             LAMBDA k : cells[k] = value)
       IN [p \in DOMAIN kept |-> rows[kept[p]]]

(* str(value) in an f-string *)
StrOf(text) == IF text = NaNText THEN <<"n", "a", "n">> ELSE text

Inflow(rows) == SumAmount(SelectSeq(rows, IsPositive))

Outflow(rows) == Abs(SumAmount(SelectSeq(rows, IsNegative)))

-----------------------------------------------------------------------------
(* CashFlowReport *)

(* Outflow added instead of subtracted *)
NetFlowAdded(inflow, outflow) == inflow + outflow

(* net_flow = inflow - outflow *)
NetFlow(inflow, outflow) == inflow - outflow

(* The periods list: running_balance accumulates over the sorted labels *)
RECURSIVE CashFlowPeriods(_, _, _, _, _)
CashFlowPeriods(rows, grouping, names, k, running_balance) ==
  IF k > Len(names) THEN <<>>
  ELSE LET period_rows ==
             RowsEqual(rows,
                       [j \in DOMAIN rows |-> PeriodLabel(grouping, rows[j].date)],
                       names[k])
           inflow == Inflow(period_rows)
           outflow == Outflow(period_rows)
           net_flow == NetFlow(inflow, outflow)
       IN <<[period |-> names[k],
             inflow |-> inflow,
             outflow |-> outflow,
             net_flow |-> net_flow,
             running_balance |-> running_balance + net_flow,
             transaction_count |-> Len(period_rows)]>>
          \o CashFlowPeriods(rows, grouping, names, k + 1,
                             running_balance + net_flow)

CashFlowData(df, grouping) ==
  IF IsEmpty(df) \/ "date" \notin df.columns
  THEN Ok([report_type |-> "Cash Flow",
           grouping |-> grouping,
           period |-> <<>>,
           periods |-> <<>>,
           total_inflow |-> 0,
           total_outflow |-> 0,
           net_cash_flow |-> 0])
  ELSE IF SortedRaises(PeriodSet(Rows(df), grouping)) THEN Raise("TypeError")
  ELSE IF "amount" \notin df.columns THEN Raise("KeyError")
  ELSE LET names == SortedValues(PeriodSet(Rows(df), grouping))
           periods == CashFlowPeriods(Rows(df), grouping, names, 1, 0)
           total_inflow == SumSeq([i \in DOMAIN periods |-> periods[i].inflow])
           total_outflow == SumSeq([i \in DOMAIN periods |-> periods[i].outflow])
       IN Ok([report_type |-> "Cash Flow",
              grouping |-> grouping,
              period |-> IF periods # <<>>
                         THEN StrOf(periods[1].period) \o <<" ", "t", "o", " ">>
                              \o StrOf(periods[Len(periods)].period)
                         ELSE <<>>,
              periods |-> periods,
              total_inflow |-> total_inflow,
              total_outflow |-> total_outflow,
              net_cash_flow |-> total_inflow - total_outflow])

(* CashFlowReport(transactions, filters, grouping).to_dict() *)
CashFlowReport(builder, f, grouping) ==
  LET m == SelfApplyFilters(BaseReport(builder.heap, builder.transactions), f)
  IN IF m.raised THEN Leaves(m.heap, m.result)
     ELSE IF IsEmpty(m.heap[m.df]) \/ "date" \notin m.heap[m.df].columns
     THEN Leaves(m.heap, CashFlowData(m.heap[m.df], grouping))
     ELSE LET heap == AddPeriod(m, grouping)
          IN Leaves(heap, CashFlowData(heap[m.df], grouping))

-----------------------------------------------------------------------------
(* CategoryAnalysisReport *)

AmountValues(rows) == {rows[i].amount[1] : i \in {j \in DOMAIN rows : rows[j].amount # NaN}}

(* agg min and max: an amount cell, NaN when the group holds no number *)
MinAmount(rows) ==
  IF AmountValues(rows) = {} THEN NaN
  ELSE Num(CHOOSE x \in AmountValues(rows) : \A y \in AmountValues(rows) : x <= y)

MaxAmount(rows) ==
  IF AmountValues(rows) = {} THEN NaN
  ELSE Num(CHOOSE x \in AmountValues(rows) : \A y \in AmountValues(rows) : x >= y)

SumSquares(rows) == SumSeq([i \in DOMAIN rows |-> AmountOf(rows[i]) * AmountOf(rows[i])])

(* The sample variance without the replacement of NaN: den = 0 for fewer   *)
(* than two numbers                                                        *)
StdDevUndefined(rows) ==
  LET n == CountAmount(rows)
  IN Frac(n * SumSquares(rows) - SumAmount(rows) * SumAmount(rows), n * (n - 1))

(* agg std (ddof = 1), held as its square (n * sum(x^2) - sum(x)^2) /       *)
(* (n * (n - 1)); NaN for fewer than two numbers, which the report turns   *)
(* into 0.0                                                                *)
StdDev(rows) ==
  LET n == CountAmount(rows)
  IN IF n < 2 THEN ZeroFrac
     ELSE Frac(n * SumSquares(rows) - SumAmount(rows) * SumAmount(rows), n * (n - 1))

(* percentage_of_total of a group total against the grand total *)
PercentageOfTotal(group_total, total_amount) ==
  IF total_amount # 0 THEN Frac(Abs(group_total) * 100, Abs(total_amount))
  ELSE ZeroFrac

(* DataFrame.head(n) for n >= 0 *)
HeadN(s, n) == SubSeq(s, 1, IF n < Len(s) THEN n ELSE Len(s))

(* DataFrame.head(top_n) as Merchant Analysis calls it, without a test of  *)
(* top_n: head(n) is iloc[:n], and iloc[:None] holds every row             *)
HeadTopN(s, top_n) == IF top_n = None THEN s ELSE HeadN(s, top_n[1])

(* The categories in falling order of the absolute total *)
CategorySummaryByAbs(rows) ==
  LET keys == GroupKeys(rows, "category")
      Entry(k) ==
        LET g == GroupRows(rows, "category", keys[k])
        IN [category |-> keys[k],
            total |-> SumAmount(g),
            count |-> CountAmount(g),
            average |-> MeanAmount(g),
            min |-> MinAmount(g),
            max |-> MaxAmount(g),
            std_dev |-> StdDev(g)]
  IN SortDescBy([k \in DOMAIN keys |-> Entry(k)],
                [k \in DOMAIN keys |-> Abs(Entry(k).total)])

CategorySummary(rows) ==
  LET keys == GroupKeys(rows, "category")
      Entry(k) ==
        LET g == GroupRows(rows, "category", keys[k])
        IN [category |-> keys[k],
            total |-> SumAmount(g),
            count |-> CountAmount(g),
            average |-> MeanAmount(g),
            min |-> MinAmount(g),
            max |-> MaxAmount(g),
            std_dev |-> StdDev(g)]
  IN SortDescBy([k \in DOMAIN keys |-> Entry(k)],
                [k \in DOMAIN keys |-> Entry(k).total])

CategoryAnalysisData(df, top_n) ==
  IF IsEmpty(df) \/ "category" \notin df.columns
  THEN Ok([report_type |-> "Category Analysis",
           categories |-> <<>>,
           total_amount |-> 0,
           category_count |-> 0])
  ELSE IF "amount" \notin df.columns THEN Raise("KeyError")
  ELSE LET sorted == CategorySummary(Rows(df))
           summary == IF top_n # None /\ top_n[1] # 0
                      THEN HeadN(sorted, top_n[1]) ELSE sorted
           total_amount == SumAmount(Rows(df))
           categories ==
             [k \in DOMAIN summary |->
                [category |-> summary[k].category,
                 total |-> summary[k].total,
                 count |-> summary[k].count,
                 average |-> summary[k].average,
                 min |-> summary[k].min,
                 max |-> summary[k].max,
                 std_dev |-> summary[k].std_dev,
                 percentage_of_total |->
                   PercentageOfTotal(summary[k].total, total_amount)]]
       IN Ok([report_type |-> "Category Analysis",
              categories |-> categories,
              total_amount |-> total_amount,
              category_count |-> Len(categories)])

(* CategoryAnalysisReport(transactions, filters, top_n).to_dict() *)
CategoryAnalysisReport(builder, f, top_n) ==
  LET m == SelfApplyFilters(BaseReport(builder.heap, builder.transactions), f)
  IN IF m.raised THEN Leaves(m.heap, m.result)
     ELSE Leaves(m.heap, CategoryAnalysisData(m.heap[m.df], top_n))

-----------------------------------------------------------------------------
(* MerchantAnalysisReport *)

(* The most frequent value that comes first in the rows *)
PrimaryCategoryFirstSeen(rows) ==
  LET vals == {rows[i].category : i \in DOMAIN rows} \ {NaNText}
      Freq(v) == Len(SelectSeq(rows, LAMBDA r : r.category = v))
      modes == {v \in vals : \A w \in vals : Freq(w) <= Freq(v)}
      First(v) == CHOOSE i \in DOMAIN rows :
                    rows[i].category = v /\ \A j \in 1..(i - 1) : rows[j].category # v
  IN IF modes = {} THEN <<>>
     ELSE CHOOSE v \in modes : \A w \in modes : First(v) <= First(w)

(* x.mode()[0] if len(x.mode()) > 0 else '': mode() drops NaN and returns  *)
(* the most frequent values sorted, so [0] is the smallest of them         *)
PrimaryCategory(rows) ==
  LET vals == {rows[i].category : i \in DOMAIN rows} \ {NaNText}
      Freq(v) == Len(SelectSeq(rows, LAMBDA r : r.category = v))
      modes == {v \in vals : \A w \in vals : Freq(w) <= Freq(v)}
  IN IF modes = {} THEN <<>> ELSE SortedStrs(modes)[1]

(* df.groupby('merchant').agg(...).reset_index(): one row per merchant, in *)
(* the order of the keys                                                   *)
MerchantGroups(rows) ==
  LET keys == GroupKeys(rows, "merchant")
  IN [k \in DOMAIN keys |->
        LET g == GroupRows(rows, "merchant", keys[k])
        IN [merchant |-> keys[k],
            total |-> SumAmount(g),
            count |-> CountAmount(g),
            average |-> MeanAmount(g),
            primary_category |-> PrimaryCategory(g)]]

(* sort_values('abs_total', ascending=False): the rows of merchant_summary *)
(* in falling order of the absolute total                                  *)
MerchantSummary(rows) ==
  LET groups == MerchantGroups(rows)
  IN SortDescBy(groups, [k \in DOMAIN groups |-> Abs(groups[k].total)])

MerchantAnalysisData(df, top_n) ==
  IF IsEmpty(df) \/ "merchant" \notin df.columns
  THEN Ok([report_type |-> "Merchant Analysis",
           merchants |-> <<>>,
           total_amount |-> 0,
           merchant_count |-> 0])
  ELSE IF "amount" \notin df.columns \/ "category" \notin df.columns
  THEN Raise("KeyError")
  ELSE LET summary == HeadTopN(MerchantSummary(Rows(df)), top_n)
           total_amount == SumAmount(Rows(df))
           merchants ==
             [k \in DOMAIN summary |->
                [merchant |-> summary[k].merchant,
                 total |-> summary[k].total,
                 count |-> summary[k].count,
                 average |-> summary[k].average,
                 primary_category |-> summary[k].primary_category,
                 percentage_of_total |->
                   PercentageOfTotal(summary[k].total, total_amount)]]
       IN Ok([report_type |-> "Merchant Analysis",
              merchants |-> merchants,
              total_amount |-> total_amount,
              merchant_count |-> Len(merchants)])

(* merchant_summary, the new frame of groupby(...).agg(...) with its rows  *)
(* in key order, and merchant_summary['abs_total'] = ... set in it; the    *)
(* sort_values and head that follow make frames of their own, to which     *)
(* nothing is assigned                                                     *)
AddAbsTotal(heap, rows) ==
  LET summary == MerchantGroups(rows)
      frame == [columns |-> {"merchant", "total", "count", "average",
                             "primary_category"},
                index |-> [k \in DOMAIN summary |-> k],
                data |-> summary]
  IN SetColumn(Alloc(heap, frame), Len(heap) + 1, "abs_total",
               [k \in DOMAIN summary |-> Abs(summary[k].total)])

(* MerchantAnalysisReport(transactions, filters, top_n).to_dict() *)
MerchantAnalysisReport(builder, f, top_n) ==
  LET m == SelfApplyFilters(BaseReport(builder.heap, builder.transactions), f)
  IN IF m.raised THEN Leaves(m.heap, m.result)
     ELSE LET data == MerchantAnalysisData(m.heap[m.df], top_n)
          IN IF data.raised \/ IsEmpty(m.heap[m.df])
                \/ "merchant" \notin m.heap[m.df].columns
             THEN Leaves(m.heap, data)
             ELSE Leaves(AddAbsTotal(m.heap, Rows(m.heap[m.df])), data)

-----------------------------------------------------------------------------
(* TrendAnalysisReport *)

(* The category of the least expense *)
TopExpenseCategoryLeast(rows) ==
  LET expenses == SelectSeq(rows, IsNegative)
      keys == GroupKeys(expenses, "category")
      Total(k) == SumAmount(GroupRows(expenses, "category", keys[k]))
  IN IF keys = <<>> THEN None
     ELSE Some(keys[CHOOSE k \in DOMAIN keys :
                      /\ \A j \in DOMAIN keys : Total(k) >= Total(j)
                      /\ \A j \in 1..(k - 1) : Total(j) < Total(k)])

(* cat_totals.idxmin() over the expense rows of a period: the first key,   *)
(* in sorted key order, whose total is the least; None without expenses    *)
TopExpenseCategory(rows) ==
  LET expenses == SelectSeq(rows, IsNegative)
      keys == GroupKeys(expenses, "category")
      Total(k) == SumAmount(GroupRows(expenses, "category", keys[k]))
  IN IF keys = <<>> THEN None
     ELSE Some(keys[CHOOSE k \in DOMAIN keys :
                      /\ \A j \in DOMAIN keys : Total(k) <= Total(j)
                      /\ \A j \in 1..(k - 1) : Total(j) > Total(k)])

TrendPeriods(rows, columns, grouping, names) ==
  [k \in DOMAIN names |->
     LET period_rows ==
           RowsEqual(rows,
                       [j \in DOMAIN rows |-> PeriodLabel(grouping, rows[j].date)],
                       names[k])
         income == Inflow(period_rows)
         expenses == Outflow(period_rows)
     IN [period |-> names[k],
         income |-> income,
         expenses |-> expenses,
         net |-> income - expenses,
         transaction_count |-> Len(period_rows),
         top_expense_category |->
           IF "category" \in columns THEN TopExpenseCategory(period_rows)
           ELSE None]]

TrendAnalysisData(df, grouping) ==
  IF IsEmpty(df) \/ "date" \notin df.columns
  THEN Ok([report_type |-> "Trend Analysis",
           grouping |-> grouping,
           periods |-> <<>>])
  ELSE IF SortedRaises(PeriodSet(Rows(df), grouping)) THEN Raise("TypeError")
  ELSE IF "amount" \notin df.columns THEN Raise("KeyError")
  ELSE Ok([report_type |-> "Trend Analysis",
           grouping |-> grouping,
           periods |-> TrendPeriods(Rows(df), df.columns, grouping,
                                    SortedValues(PeriodSet(Rows(df), grouping)))])

(* TrendAnalysisReport(transactions, filters, grouping).to_dict() *)
TrendAnalysisReport(builder, f, grouping) ==
  LET m == SelfApplyFilters(BaseReport(builder.heap, builder.transactions), f)
  IN IF m.raised THEN Leaves(m.heap, m.result)
     ELSE IF IsEmpty(m.heap[m.df]) \/ "date" \notin m.heap[m.df].columns
     THEN Leaves(m.heap, TrendAnalysisData(m.heap[m.df], grouping))
     ELSE LET heap == AddPeriod(m, grouping)
          IN Leaves(heap, TrendAnalysisData(heap[m.df], grouping))

-----------------------------------------------------------------------------
(* AccountSummaryReport *)

(* Expenses added to the income instead of subtracted *)
AccountEntriesAdded(rows, names) ==
  [k \in DOMAIN names |->
     LET account_rows == RowsEqual(rows, [j \in DOMAIN rows |-> rows[j].account], names[k])
         income == Inflow(account_rows)
         expenses == Outflow(account_rows)
     IN [account |-> names[k],
         income |-> income,
         expenses |-> expenses,
         balance_change |-> income + expenses,
         transaction_count |-> Len(account_rows)]]

AccountEntries(rows, names) ==
  [k \in DOMAIN names |->
     LET account_rows == RowsEqual(rows, [j \in DOMAIN rows |-> rows[j].account], names[k])
         income == Inflow(account_rows)
         expenses == Outflow(account_rows)
     IN [account |-> names[k],
         income |-> income,
         expenses |-> expenses,
         balance_change |-> income - expenses,
         transaction_count |-> Len(account_rows)]]

AccountSummaryData(df) ==
  IF IsEmpty(df) \/ "account" \notin df.columns
  THEN Ok([report_type |-> "Account Summary",
           accounts |-> <<>>,
           total_balance_change |-> 0])
  ELSE LET S == {Rows(df)[i].account : i \in DOMAIN Rows(df)}
       IN IF SortedRaises(S) THEN Raise("TypeError")
          ELSE IF "amount" \notin df.columns THEN Raise("KeyError")
          ELSE LET entries == AccountEntries(Rows(df), SortedValues(S))
                   accounts ==
                     SortDescBy(entries,
                                [k \in DOMAIN entries |->
                                   Abs(entries[k].balance_change)])
               IN Ok([report_type |-> "Account Summary",
                      accounts |-> accounts,
                      total_balance_change |->
                        SumSeq([i \in DOMAIN accounts |->
                                  accounts[i].balance_change])])

(* AccountSummaryReport(transactions, filters).to_dict() *)
AccountSummaryReport(builder, f) ==
  LET m == SelfApplyFilters(BaseReport(builder.heap, builder.transactions), f)
  IN IF m.raised THEN Leaves(m.heap, m.result)
     ELSE Leaves(m.heap, AccountSummaryData(m.heap[m.df]))

-----------------------------------------------------------------------------
(* BaseReport.apply_sort and ReportBuilder.custom_report *)

(* The order of two cells of one column: numbers, timestamps, str *)
CellLess(col, a, b) ==
  IF col = "amount" THEN a[1] < b[1]
  ELSE IF col \in DateColumns THEN a # b /\ DateLeq(a, b)
  ELSE StrLess(a, b)

(* df.sort_values(by=field, ascending=...) on a frame of fewer than 16     *)
(* rows: missing cells last, ties in their old order                       *)
ApplySort(df, sort) ==
  IF IsEmpty(df) \/ sort.field \notin df.columns THEN df
  ELSE LET col == sort.field
           n == Len(df.index)
           Cell(p) == df.data[df.index[p]][col]
           Missing(p) == Cell(p) = MissingCell(col)
           Before(p, q) ==
             IF Missing(p) \/ Missing(q)
             THEN (~Missing(p) /\ Missing(q)) \/ (Missing(p) /\ Missing(q) /\ p < q)
             ELSE \/ IF sort.order = "asc" THEN CellLess(col, Cell(p), Cell(q))
                     ELSE CellLess(col, Cell(q), Cell(p))
                  \/ Cell(p) = Cell(q) /\ p < q
           Rank(q) == Cardinality({p \in 1..n : Before(p, q)})
       IN [df EXCEPT !.index =
             [k \in 1..n |-> df.index[CHOOSE q \in 1..n : Rank(q) = k - 1]]]

(* groupby(group_by).agg(...).reset_index().to_dict('records') *)
GroupedRecords(rows, group_by) ==
  LET keys == GroupKeys(rows, group_by)
  IN [k \in DOMAIN keys |->
        LET g == GroupRows(rows, group_by, keys[k])
        IN (group_by :> keys[k]) @@
           [total |-> SumAmount(g),
            count |-> CountAmount(g),
            average |-> MeanAmount(g),
            min |-> MinAmount(g),
            max |-> MaxAmount(g)]]

CustomReportData(df, group_by) ==
  IF "amount" \notin df.columns THEN Raise("KeyError")
  ELSE IF group_by # None /\ group_by[1] # "" /\ group_by[1] \in df.columns
  THEN Ok([report_type |-> "Custom Report",
           grouped_by |-> group_by[1],
           data |-> GroupedRecords(Rows(df), group_by[1]),
           total_amount |-> SumAmount(Rows(df)),
           transaction_count |-> NRows(df)])
  ELSE Ok([report_type |-> "Custom Report",
           transactions |-> Rows(df),
           total_amount |-> SumAmount(Rows(df)),
           transaction_count |-> NRows(df)])

(* ReportBuilder.custom_report(filters, sort, group_by), for group_by a    *)
(* text column or a name that is no column                                 *)
CustomReport(builder, f, sort, group_by) ==
  LET m == SelfApplyFilters(BaseReport(builder.heap, builder.transactions), f)
  IN IF m.raised THEN Leaves(m.heap, m.result)
     ELSE LET df == m.heap[m.df]
          IN Leaves(m.heap,
                    CustomReportData(IF sort # None THEN ApplySort(df, sort[1])
                                     ELSE df,
                                     group_by))

-----------------------------------------------------------------------------
(* webapp.py: the session store and the handlers that use it. A handler    *)
(* runs without interruption from one await that suspends to the next      *)

SESSION_TIMEOUT_MINUTES == 60

Handlers == 1..MaxHandlers

SessionIds == 1..MaxSessions

(* A handler that is not running *)
Idle ==
  [kind |-> "idle", pc |-> "idle", session_id |-> None, status |-> 0,
   error |-> "", client |-> None, age |-> None, expired |-> FALSE,
   cleared |-> FALSE, pending |-> <<>>]

(* user_sessions = {}, session_timestamps = {} at import; no request yet *)
WebInit ==
  /\ user_sessions = {}
  /\ session_timestamps = <<>>
  /\ now = 0
  /\ closed = [s \in SessionIds |-> 0]
  /\ handlers = [h \in Handlers |-> Idle]
  /\ cookie = None
  /\ issued = 0

(* `if k in m: del m[k]` *)
Drop(m, k) == [x \in DOMAIN m \ {k} |-> m[x]]

(* session_age.total_seconds() > SESSION_TIMEOUT_MINUTES * 60 *)
Expired(sid) ==
  /\ sid \in DOMAIN session_timestamps
  /\ (now - session_timestamps[sid]) * 60 > SESSION_TIMEOUT_MINUTES * 60

(* cleanup_session(sid) when sid is in user_sessions: close() is called on *)
(* the client and the handler suspends in it                               *)
CleanupAwaitsClose(h, kind, sid, met) ==
  /\ closed' = [closed EXCEPT ![sid] = @ + 1]
  /\ handlers' = [handlers EXCEPT ![h] =
                    [Idle EXCEPT !.kind = kind, !.pc = "closing",
                                 !.session_id = Some(sid), !.expired = met]]
  /\ UNCHANGED <<user_sessions, session_timestamps, now, cookie, issued>>

(* A handler ends with an HTTP status *)
Done(h, kind, sid, status) ==
  [Idle EXCEPT !.kind = kind, !.pc = "done", !.session_id = sid,
               !.status = status]

(* POST /api/login up to its first await: cleanup_session(old_session_id), *)
(* which returns at once when the id holds no client, then                 *)
(* client._start_browser()                                                 *)
Login(h) ==
  /\ handlers[h].pc = "idle"
  /\ issued < MaxSessions
  /\ IF cookie # None /\ cookie[1] \in user_sessions
     THEN CleanupAwaitsClose(h, "login", cookie[1], FALSE)
     ELSE /\ session_timestamps' =
               (IF cookie # None THEN Drop(session_timestamps, cookie[1])
                ELSE session_timestamps)
          /\ handlers' = [handlers EXCEPT ![h] =
                            [Idle EXCEPT !.kind = "login", !.pc = "browser",
                                         !.session_id = cookie]]
          /\ UNCHANGED <<user_sessions, now, closed, cookie, issued>>
  /\ UNCHANGED reportvars

(* client._start_browser() returns and the handler suspends in            *)
(* client.login(), or it raises and the handler answers 500               *)
BrowserStarts(h) ==
  /\ handlers[h].pc = "browser"
  /\ \E raises \in BOOLEAN :
       handlers' = [handlers EXCEPT ![h] =
                      IF raises THEN [@ EXCEPT !.pc = "done", !.status = 500]
                      ELSE [@ EXCEPT !.pc = "login"]]
  /\ UNCHANGED <<user_sessions, session_timestamps, now, closed, cookie, issued>>
  /\ UNCHANGED reportvars

(* client.login() returns: on success the client is stored under a new     *)
(* session id with its creation time; on failure the handler suspends in   *)
(* client.close() of the new client; an exception answers 500              *)
LoginReturns(h) ==
  /\ handlers[h].pc = "login"
  /\ \E success \in BOOLEAN, raises \in BOOLEAN :
       IF raises
       THEN /\ handlers' = [handlers EXCEPT ![h] =
                              [@ EXCEPT !.pc = "done", !.status = 500]]
            /\ UNCHANGED <<user_sessions, session_timestamps, cookie, issued>>
       ELSE IF success
       THEN /\ issued < MaxSessions
            /\ issued' = issued + 1
            /\ user_sessions' = user_sessions \cup {issued + 1}
            /\ session_timestamps' =
                 [x \in DOMAIN session_timestamps \cup {issued + 1} |->
                    IF x = issued + 1 THEN now ELSE session_timestamps[x]]
            /\ cookie' = Some(issued + 1)
            /\ handlers' = [handlers EXCEPT ![h] =
                              [@ EXCEPT !.pc = "done", !.status = 200,
                                        !.client = Some(issued + 1)]]
       ELSE /\ handlers' = [handlers EXCEPT ![h] = [@ EXCEPT !.pc = "failed"]]
            /\ UNCHANGED <<user_sessions, session_timestamps, cookie, issued>>
  /\ UNCHANGED <<now, closed>>
  /\ UNCHANGED reportvars

(* close() of the client of a failed login returns and the handler raises  *)
(* 401, or close() raises and the handler answers 500; that client was     *)
(* never stored                                                            *)
FailedLoginCloses(h) ==
  /\ handlers[h].pc = "failed"
  /\ \E raises \in BOOLEAN :
       handlers' = [handlers EXCEPT ![h] =
                      [@ EXCEPT !.pc = "done",
                                !.status = IF raises THEN 500 ELSE 401]]
  /\ UNCHANGED <<user_sessions, session_timestamps, now, closed, cookie, issued>>
  /\ UNCHANGED reportvars

(* POST /api/logout up to its first await *)
Logout(h) ==
  /\ handlers[h].pc = "idle"
  /\ IF cookie # None /\ cookie[1] \in user_sessions
     THEN CleanupAwaitsClose(h, "logout", cookie[1], FALSE)
     ELSE /\ session_timestamps' =
               (IF cookie # None THEN Drop(session_timestamps, cookie[1])
                ELSE session_timestamps)
          /\ cookie' = None
          /\ handlers' = [handlers EXCEPT ![h] =
                            [Done(h, "logout", cookie, 200) EXCEPT
                               !.cleared = cookie # None]]
          /\ UNCHANGED <<user_sessions, now, closed, issued>>
  /\ UNCHANGED reportvars

(* A data endpoint up to the return of get_client_from_session or its      *)
(* first await: 401 without a client, cleanup_session for an expired       *)
(* session, the client otherwise                                           *)
Request(h) ==
  /\ handlers[h].pc = "idle"
  /\ IF cookie = None \/ cookie[1] \notin user_sessions
     THEN /\ handlers' = [handlers EXCEPT ![h] = Done(h, "request", cookie, 401)]
          /\ UNCHANGED <<user_sessions, session_timestamps, now, closed, cookie,
                         issued>>
     ELSE IF Expired(cookie[1])
     THEN CleanupAwaitsClose(h, "request", cookie[1], TRUE)
     ELSE /\ handlers' = [handlers EXCEPT ![h] =
                            [Done(h, "request", cookie, 200) EXCEPT
                               !.client = cookie,
                               !.age = IF cookie[1] \in DOMAIN session_timestamps
                                       THEN Some(now - session_timestamps[cookie[1]])
                                       ELSE None]]
          /\ UNCHANGED <<user_sessions, session_timestamps, now, closed, cookie,
                         issued>>
  /\ UNCHANGED reportvars

(* close() returns, or raises and is logged, in cleanup_session: the       *)
(* finally clause deletes user_sessions[session_id], which raises KeyError *)
(* when the id is gone; then the timestamp is deleted and the caller goes  *)
(* on. login and logout turn the exception into 500, a data endpoint lets  *)
(* it out, which the server answers with 500                               *)
CloseReturns(h) ==
  /\ handlers[h].pc = "closing"
  /\ handlers[h].kind # "sweep"
  /\ LET sid == handlers[h].session_id[1]
         kind == handlers[h].kind
     IN IF sid \notin user_sessions
        THEN /\ handlers' = [handlers EXCEPT ![h] =
                               [@ EXCEPT !.pc = "done", !.status = 500,
                                         !.error = "KeyError"]]
             /\ UNCHANGED <<user_sessions, session_timestamps, cookie>>
        ELSE /\ user_sessions' = user_sessions \ {sid}
             /\ session_timestamps' = Drop(session_timestamps, sid)
             /\ IF kind = "login"
                THEN /\ handlers' = [handlers EXCEPT ![h] = [@ EXCEPT !.pc = "browser"]]
                     /\ UNCHANGED cookie
                ELSE /\ handlers' = [handlers EXCEPT ![h] =
                                       [@ EXCEPT !.pc = "done",
                                                 !.cleared = TRUE,
                                                 !.status = IF kind = "logout"
                                                            THEN 200 ELSE 401]]
                     /\ cookie' = None
  /\ UNCHANGED <<now, closed, issued>>
  /\ UNCHANGED reportvars

(* cleanup_expired_sessions: the ids of session_timestamps whose age is    *)
(* over the timeout, in the order of the dict, which is the order the      *)
(* sessions were created in                                                *)
ExpiredSessions ==
  LET S == {s \in DOMAIN session_timestamps : Expired(s)}
  IN [p \in 1..Cardinality(S) |->
        CHOOSE x \in S : Cardinality({y \in S : y < x}) = p - 1]

(* The loop `for session_id in expired_sessions: await                     *)
(* cleanup_session(session_id)` from the ids that are left up to its next  *)
(* suspension: cleanup_session returns at once for an id that holds no     *)
(* client, after deleting its timestamp, and suspends in close() for the   *)
(* first id that holds one                                                 *)
SweepStep(ids, us, ts) ==
  LET found == {k \in DOMAIN ids : ids[k] \in us}
      k == IF found = {} THEN Len(ids) + 1
           ELSE CHOOSE x \in found : \A y \in found : x <= y
      skipped == {ids[j] : j \in 1..(k - 1)}
  IN [ts |-> [x \in DOMAIN ts \ skipped |-> ts[x]],
      next |-> IF k <= Len(ids) THEN Some(ids[k]) ELSE None,
      rest |-> SubSeq(ids, k + 1, Len(ids))]

(* The task after a piece of the loop: suspended in close() of the next    *)
(* client, or at its end                                                   *)
SweepGoesOn(h, step) ==
  /\ session_timestamps' = step.ts
  /\ closed' = IF step.next = None THEN closed
               ELSE [closed EXCEPT ![step.next[1]] = @ + 1]
  /\ handlers' = [handlers EXCEPT ![h] =
                    IF step.next = None
                    THEN [Idle EXCEPT !.kind = "sweep", !.pc = "done"]
                    ELSE [Idle EXCEPT !.kind = "sweep", !.pc = "closing",
                                      !.session_id = step.next,
                                      !.pending = step.rest]]

(* cleanup_expired_sessions() up to its first await: it has no caller in   *)
(* the module and runs whenever it is called from outside                  *)
CleanupExpiredSessions(h) ==
  /\ handlers[h].pc = "idle"
  /\ SweepGoesOn(h, SweepStep(ExpiredSessions, user_sessions, session_timestamps))
  /\ UNCHANGED <<user_sessions, now, cookie, issued>>
  /\ UNCHANGED reportvars

(* close() returns in a cleanup_session call of cleanup_expired_sessions:  *)
(* KeyError when the id is gone, which ends the task; else both entries    *)
(* are deleted and the loop goes on                                        *)
SweepCloseReturns(h) ==
  /\ handlers[h].pc = "closing"
  /\ handlers[h].kind = "sweep"
  /\ LET sid == handlers[h].session_id[1]
     IN IF sid \notin user_sessions
        THEN /\ handlers' = [handlers EXCEPT ![h] =
                               [@ EXCEPT !.pc = "done", !.error = "KeyError"]]
             /\ UNCHANGED <<user_sessions, session_timestamps, closed>>
        ELSE /\ user_sessions' = user_sessions \ {sid}
             /\ SweepGoesOn(h, SweepStep(handlers[h].pending,
                                         user_sessions \ {sid},
                                         Drop(session_timestamps, sid)))
  /\ UNCHANGED <<now, cookie, issued>>
  /\ UNCHANGED reportvars

(* The response is sent, or the task ends, and the handler is gone *)
Respond(h) ==
  /\ handlers[h].pc = "done"
  /\ handlers' = [handlers EXCEPT ![h] = Idle]
  /\ UNCHANGED <<user_sessions, session_timestamps, now, closed, cookie, issued>>
  /\ UNCHANGED reportvars

(* Time passes: by the timeout, or by one minute more *)
Tick ==
  /\ \E d \in {SESSION_TIMEOUT_MINUTES, SESSION_TIMEOUT_MINUTES + 1} :
       /\ now + d <= MaxClock
       /\ now' = now + d
  /\ UNCHANGED <<user_sessions, session_timestamps, closed, handlers, cookie,
                 issued>>
  /\ UNCHANGED reportvars

-----------------------------------------------------------------------------
(* ReportBuilder: the facade holds the transaction list and builds one     *)
(* report object per call                                                  *)

(* MerchantAnalysisReport.__init__ and ReportBuilder.merchant_analysis:    *)
(* top_n defaults to 20                                                    *)
DefaultTopN == 20

MkCall(op, f, grouping, top_n, sort, group_by) ==
  [op |-> op, filters |-> f, grouping |-> grouping, top_n |-> top_n,
   sort |-> sort, group_by |-> group_by]

NoCall == MkCall("none", NoFilter, "-", None, None, None)

NoResult == Ok([report_type |-> "none"])

(* BaseReport(transactions).apply_filters(filters): the filtered frame *)
FilterTransactions(builder, f) ==
  LET m == SelfApplyFilters(BaseReport(builder.heap, builder.transactions), f)
  IN IF m.raised THEN Leaves(m.heap, m.result)
     ELSE Leaves(m.heap, Ok(m.heap[m.df]))

(* A call on a builder *)
RunReport(builder, c) ==
  CASE c.op = "profit_and_loss" -> ProfitAndLossReport(builder, c.filters)
    [] c.op = "cash_flow" -> CashFlowReport(builder, c.filters, c.grouping)
    [] c.op = "category_analysis" ->
         CategoryAnalysisReport(builder, c.filters, c.top_n)
    [] c.op = "merchant_analysis" ->
         MerchantAnalysisReport(builder, c.filters, c.top_n)
    [] c.op = "trend_analysis" ->
         TrendAnalysisReport(builder, c.filters, c.grouping)
    [] c.op = "account_summary" -> AccountSummaryReport(builder, c.filters)
    [] c.op = "custom_report" ->
         CustomReport(builder, c.filters, c.sort, c.group_by)
    [] c.op = "apply_filters" -> FilterTransactions(builder, c.filters)
    [] OTHER -> Leaves(builder.heap, NoResult)

(* What a call returns on a new builder for a transaction list *)
Generate(txs, c) == RunReport(ReportBuilder(txs), c).result

(* The remembered call, once a different call is made after it *)
Observe(s, c) ==
  IF s # None /\ c # s[1].call THEN Some([s[1] EXCEPT !.between = TRUE]) ELSE s

(* The call c on the builder ends as run: the caller gets the result, the  *)
(* builder's list is what the call left at its address, and the report's   *)
(* frames go with the report object. seen and initial only observe.        *)
Return(c, run) ==
  /\ call' = c
  /\ result' = run.result
  /\ transactions' = run.heap[ReportBuilder(transactions).transactions]
  /\ seen' = Observe(seen, c)
  /\ UNCHANGED initial
  /\ UNCHANGED webvars

(* One call of a ReportBuilder method, whichever it is *)
Invoke(c) == Return(c, RunReport(ReportBuilder(transactions), c))

-----------------------------------------------------------------------------
(* The inputs of the model *)

Food == <<"F", "o", "o", "d">>

Rent == <<"R", "e", "n", "t">>

Amazon == <<"A", "m", "z">>

Shell == <<"S", "h", "l">>

Checking == <<"C", "h", "k">>

Savings == <<"S", "a", "v">>

Jan15 == <<2025, 1, 15>>

Feb01 == <<2025, 2, 1>>

(* "2025-02-30": a date string that does not parse *)
BadDate == <<2025, 2, 30>>

Amounts == {-2, 0, 1}

Without(r, k) == [x \in DOMAIN r \ {k} |-> r[x]]

With(r, k, v) == [x \in DOMAIN r \cup {k} |-> IF x = k THEN v ELSE r[x]]

Base1(a) ==
  [date |-> Jan15, amount |-> RawNum(a), category |-> Food,
   merchant |-> Amazon, account |-> Checking]

Base2(a) ==
  [date |-> Feb01, amount |-> RawNum(a), category |-> Rent,
   merchant |-> Shell, account |-> Savings]

(* Records that carry every field *)
WellFormed == {Base1(a) : a \in Amounts} \cup {Base2(a) : a \in Amounts}

(* Records with one defect: a field left out, or a date or an amount that  *)
(* does not parse; and the record with no field at all                     *)
Malformed ==
  {Without(Base1(a), k) :
     a \in {-2, 1}, k \in {"date", "category", "merchant", "account"}}
  \cup {[Base1(a) EXCEPT !.date = BadDate] : a \in {-2, 1}}
  \cup {Without(Base1(0), "amount"), [Base1(0) EXCEPT !.amount = RawBadAmount]}
  \cup {<<>>}

Records == WellFormed \cup Malformed

TxnLists(R) == UNION {[1..n -> R] : n \in 0..MaxTxns}

(* Filters of the report calls: none, expenses only, one that matches no   *)
(* record, a category allow-list, a start date                             *)
Filters ==
  {NoFilter,
   [NoFilter EXCEPT !.max_amount = Some(-1)],
   [NoFilter EXCEPT !.min_amount = Some(5)],
   [NoFilter EXCEPT !.categories = Some(<<Lower(Food)>>)],
   [NoFilter EXCEPT !.start_date = Some(Feb01)]}

TopNs == {None, Some(1)}

(* The top_n a caller hands to merchant_analysis: None from main.py when   *)
(* --top-n is absent, the default of 20 from webapp.py and from a call     *)
(* without the argument, or the number asked for                           *)
MerchantTopNs == {None, Some(1), Some(DefaultTopN)}

-----------------------------------------------------------------------------
(* One builder, one report: generate_report of main.py and the report     *)
(* endpoint of webapp.py build a ReportBuilder and call one generator      *)

Init ==
  /\ transactions \in TxnLists(Records)
  /\ initial = transactions
  /\ call = NoCall
  /\ result = NoResult
  /\ seen = None
  /\ WebInit

ProfitAndLossCall ==
  /\ call = NoCall
  /\ \E f \in Filters :
       Return(MkCall("profit_and_loss", f, "-", None, None, None),
              ProfitAndLossReport(ReportBuilder(transactions), f))

CashFlowCall ==
  /\ call = NoCall
  /\ \E f \in Filters, g \in Groupings :
       Return(MkCall("cash_flow", f, g, None, None, None),
              CashFlowReport(ReportBuilder(transactions), f, g))

CategoryAnalysisCall ==
  /\ call = NoCall
  /\ \E f \in Filters, n \in TopNs :
       Return(MkCall("category_analysis", f, "-", n, None, None),
              CategoryAnalysisReport(ReportBuilder(transactions), f, n))

MerchantAnalysisCall ==
  /\ call = NoCall
  /\ \E f \in Filters, n \in MerchantTopNs :
       Return(MkCall("merchant_analysis", f, "-", n, None, None),
              MerchantAnalysisReport(ReportBuilder(transactions), f, n))

TrendAnalysisCall ==
  /\ call = NoCall
  /\ \E f \in Filters, g \in Groupings :
       Return(MkCall("trend_analysis", f, g, None, None, None),
              TrendAnalysisReport(ReportBuilder(transactions), f, g))

AccountSummaryCall ==
  /\ call = NoCall
  /\ \E f \in Filters :
       Return(MkCall("account_summary", f, "-", None, None, None),
              AccountSummaryReport(ReportBuilder(transactions), f))

Next ==
  \/ ProfitAndLossCall
  \/ CashFlowCall
  \/ CategoryAnalysisCall
  \/ MerchantAnalysisCall
  \/ TrendAnalysisCall
  \/ AccountSummaryCall

Spec == Init /\ [][Next]_vars

-----------------------------------------------------------------------------
(* One builder, several reports: example_quarterly_comparison of           *)
(* example_reports.py calls the generators of one ReportBuilder again and  *)
(* again. seen remembers one earlier call with its result.                 *)

ReuseRecords ==
  {Base1(1), Base2(-2), Without(Base1(-2), "date"), Without(Base1(1), "amount")}

ReuseFilters == {NoFilter, [NoFilter EXCEPT !.max_amount = Some(-1)]}

ReuseCalls ==
  UNION {{MkCall("profit_and_loss", f, "-", None, None, None),
          MkCall("cash_flow", f, "monthly", None, None, None),
          MkCall("category_analysis", f, "-", Some(1), None, None),
          MkCall("merchant_analysis", f, "-", Some(DefaultTopN), None, None),
          MkCall("trend_analysis", f, "weekly", None, None, None),
          MkCall("account_summary", f, "-", None, None, None),
          MkCall("custom_report", f, "-", None,
                 Some([field |-> "amount", order |-> "desc"]), None)}
         : f \in ReuseFilters}

InitReuse ==
  /\ transactions \in TxnLists(ReuseRecords)
  /\ initial = transactions
  /\ call = NoCall
  /\ result = NoResult
  /\ seen = None
  /\ WebInit

ReportCall == \E c \in ReuseCalls : Invoke(c)

Remember ==
  /\ seen = None
  /\ call # NoCall
  /\ seen' = Some([call |-> call, result |-> result, between |-> FALSE])
  /\ UNCHANGED <<transactions, call, result, initial>>
  /\ UNCHANGED webvars

NextReuse == ReportCall \/ Remember

SpecReuse == InitReuse /\ [][NextReuse]_vars

-----------------------------------------------------------------------------
(* The filter evaluator alone: one BaseReport, one apply_filters call. The *)
(* patterns of the model are written with letters, digits, ".", "*" and    *)
(* "|", the characters whose regular-expression reading RegexSearch models *)

(* "A.c*b" and "Axcb": merchant strings in the manner of AMAZON.COM*AB1234 *)
DotStar == <<"A", ".", "c", "*", "b">>

Plain == <<"A", "x", "c", "b">>

FilterRecords ==
  {Base1(1), Base2(-2),
   [Base1(1) EXCEPT !.merchant = DotStar],
   [Base2(-2) EXCEPT !.merchant = Plain],
   Without(Base1(-2), "category"), Without(Base1(1), "merchant"),
   Without(Base2(1), "date"), Without(Base1(0), "amount"),
   With(Base1(1), "notes", <<"o", "k">>), With(Base2(-2), "notes", <<>>),
   With(Base2(1), "description", <<"T", "a", "x">>)}

MerchantTerms ==
  {<<<<"a", "m">>>>, <<<<"s", "h">>, <<"A", "M">>>>, <<DotStar>>,
   <<<<"*">>>>, <<<<".">>>>}

FilterSpecs ==
  {NoFilter,
   [NoFilter EXCEPT !.max_amount = Some(-1)],
   [NoFilter EXCEPT !.min_amount = Some(1)],
   [NoFilter EXCEPT !.min_amount = Some(1), !.max_amount = Some(-1)],
   [NoFilter EXCEPT !.min_amount = Some(1), !.max_amount = Some(1)],
   [NoFilter EXCEPT !.categories = Some(<<Lower(Food)>>)],
   [NoFilter EXCEPT !.categories = Some(<<Lower(Food)>>),
                    !.min_amount = Some(1)],
   [NoFilter EXCEPT !.accounts = Some(<<Lower(Savings), Checking>>)],
   [NoFilter EXCEPT !.start_date = Some(Feb01)],
   [NoFilter EXCEPT !.end_date = Some(Jan15)],
   [NoFilter EXCEPT !.start_date = Some(Jan15), !.end_date = Some(Jan15)]}
  \cup {[NoFilter EXCEPT !.merchants = Some(t)] : t \in MerchantTerms}
  \cup {[NoFilter EXCEPT !.merchants = Some(<<<<"a", "m">>>>),
                         !.max_amount = Some(-1)]}
  \cup {[NoFilter EXCEPT !.notes_contains = Some(<<>>)],
        [NoFilter EXCEPT !.notes_contains = Some(<<"K">>)],
        [NoFilter EXCEPT !.description_contains = Some(<<>>)],
        [NoFilter EXCEPT !.description_contains = Some(<<"a", "X">>)]}
  \cup {[NoFilter EXCEPT !.exclude_categories = Some(<<Lower(Food)>>)],
        [NoFilter EXCEPT !.categories = Some(<<Food, Lower(Rent)>>)],
        [NoFilter EXCEPT !.categories = Some(<<Food, Lower(Rent)>>),
                         !.exclude_categories = Some(<<Lower(Food)>>)],
        [NoFilter EXCEPT !.exclude_merchants = Some(<<<<"a", "m">>>>)],
        [NoFilter EXCEPT !.exclude_merchants = Some(<<<<".">>>>)],
        [NoFilter EXCEPT !.merchants = Some(<<<<".">>>>),
                         !.exclude_merchants = Some(<<<<"a", "m">>>>)]}

InitFilter ==
  /\ transactions \in TxnLists(FilterRecords)
  /\ initial = transactions
  /\ call = NoCall
  /\ result = NoResult
  /\ seen = None
  /\ WebInit

ApplyFiltersCall ==
  /\ call = NoCall
  /\ \E f \in FilterSpecs :
       Return(MkCall("apply_filters", f, "-", None, None, None),
              FilterTransactions(ReportBuilder(transactions), f))

NextFilter == ApplyFiltersCall

SpecFilter == InitFilter /\ [][NextFilter]_vars

-----------------------------------------------------------------------------
(* The time-bucketed reports on dates around the ends of weeks, months,    *)
(* quarters and years                                                      *)

BucketDates ==
  {<<2024, 2, 29>>, <<2024, 12, 29>>, <<2024, 12, 30>>, <<2025, 1, 1>>,
   <<2025, 1, 5>>, <<2025, 1, 6>>, <<2025, 3, 31>>, <<2025, 4, 1>>,
   <<2025, 9, 30>>, <<2025, 10, 12>>}

BucketRecords ==
  {[date |-> d, amount |-> RawNum(1), category |-> Food] : d \in BucketDates}
  \cup {[amount |-> RawNum(-2), category |-> Rent]}

InitBucket ==
  /\ transactions \in TxnLists(BucketRecords)
  /\ initial = transactions
  /\ call = NoCall
  /\ result = NoResult
  /\ seen = None
  /\ WebInit

NextBucket == CashFlowCall \/ TrendAnalysisCall

SpecBucket == InitBucket /\ [][NextBucket]_vars

-----------------------------------------------------------------------------
(* One builder, one Category Analysis, Merchant Analysis or Profit & Loss  *)
(* call, on expenses and income of merchants that occur under several      *)
(* categories                                                              *)

RankRecords ==
  {[amount |-> RawNum(a), category |-> c, merchant |-> Amazon] :
     a \in {-2, -1, 1}, c \in {Food, Rent}}
  \cup {[amount |-> RawNum(-1), category |-> Food, merchant |-> Shell],
        [amount |-> RawNum(-2), merchant |-> Amazon]}

RankLists == UNION {[1..n -> RankRecords] : n \in 0..MaxRanked}

InitRank ==
  /\ transactions \in RankLists
  /\ initial = transactions
  /\ call = NoCall
  /\ result = NoResult
  /\ seen = None
  /\ WebInit

NextRank == CategoryAnalysisCall \/ MerchantAnalysisCall \/ ProfitAndLossCall

SpecRank == InitRank /\ [][NextRank]_vars

-----------------------------------------------------------------------------
(* One builder, one Merchant Analysis call, on a list of up to             *)
(* MaxMerchants records of as many merchants: expenses and income whose    *)
(* absolute amounts differ pairwise, so that the order of the merchants    *)
(* does not depend on how the sort places equal keys                       *)

(* The i-th merchant, "M01", "M02", ... *)
MerchantName(i) == <<"M">> \o Digits(i, 2)

TopRecord(i) ==
  [amount |-> RawNum(IF i % 2 = 0 THEN i ELSE -i),
   category |-> IF i % 3 = 0 THEN Rent ELSE Food,
   merchant |-> MerchantName(i)]

TopLists == {[i \in 1..n |-> TopRecord(i)] : n \in 0..MaxMerchants}

InitTop ==
  /\ transactions \in TopLists
  /\ initial = transactions
  /\ call = NoCall
  /\ result = NoResult
  /\ seen = None
  /\ WebInit

NextTop == MerchantAnalysisCall

SpecTop == InitTop /\ [][NextTop]_vars

-----------------------------------------------------------------------------
(* One builder, one custom_report call: any filter, with or without a      *)
(* sort, with or without group_by; "payee" is a field no record carries    *)

CustomRecords ==
  {Base1(-2), Base1(1), Base2(-2), Base2(1),
   Without(Base1(1), "amount"), Without(Base1(-2), "category"),
   Without(Base2(1), "merchant")}

Sorts ==
  {None,
   Some([field |-> "amount", order |-> "desc"]),
   Some([field |-> "category", order |-> "asc"]),
   Some([field |-> "payee", order |-> "asc"])}

GroupBys == {None, Some("category"), Some("payee"), Some("")}

CustomFilters ==
  {NoFilter,
   [NoFilter EXCEPT !.max_amount = Some(-1)],
   [NoFilter EXCEPT !.categories = Some(<<Lower(Food)>>)]}

InitCustom ==
  /\ transactions \in TxnLists(CustomRecords)
  /\ initial = transactions
  /\ call = NoCall
  /\ result = NoResult
  /\ seen = None
  /\ WebInit

CustomReportCall ==
  /\ call = NoCall
  /\ \E f \in CustomFilters, s \in Sorts, g \in GroupBys :
       Return(MkCall("custom_report", f, "-", None, s, g),
              CustomReport(ReportBuilder(transactions), f, s, g))

NextCustom == CustomReportCall

SpecCustom == InitCustom /\ [][NextCustom]_vars

-----------------------------------------------------------------------------
(* One builder, one Trend Analysis call, on dated records of two           *)
(* categories, one expense among them without a category                   *)

TrendRecords ==
  {[date |-> d, amount |-> RawNum(a), category |-> c] :
     d \in {Jan15, Feb01}, a \in {-2, -1, 1}, c \in {Food, Rent}}
  \cup {[date |-> Jan15, amount |-> RawNum(-1)]}

InitTrend ==
  /\ transactions \in TxnLists(TrendRecords)
  /\ initial = transactions
  /\ call = NoCall
  /\ result = NoResult
  /\ seen = None
  /\ WebInit

NextTrend == TrendAnalysisCall

SpecTrend == InitTrend /\ [][NextTrend]_vars

-----------------------------------------------------------------------------
(* The web application: handlers of one browser and                        *)
(* cleanup_expired_sessions, interleaved at their awaits; no report is     *)
(* built                                                                   *)

InitWeb ==
  /\ WebInit
  /\ transactions = <<>>
  /\ initial = <<>>
  /\ call = NoCall
  /\ result = NoResult
  /\ seen = None

NextWeb ==
  \/ \E h \in Handlers : Login(h)
  \/ \E h \in Handlers : BrowserStarts(h)
  \/ \E h \in Handlers : LoginReturns(h)
  \/ \E h \in Handlers : FailedLoginCloses(h)
  \/ \E h \in Handlers : Logout(h)
  \/ \E h \in Handlers : Request(h)
  \/ \E h \in Handlers : CloseReturns(h)
  \/ \E h \in Handlers : CleanupExpiredSessions(h)
  \/ \E h \in Handlers : SweepCloseReturns(h)
  \/ \E h \in Handlers : Respond(h)
  \/ Tick

SpecWeb == InitWeb /\ [][NextWeb]_vars

-----------------------------------------------------------------------------
(* Properties of the report results *)

SixReports ==
  {"profit_and_loss", "cash_flow", "category_analysis", "merchant_analysis",
   "trend_analysis", "account_summary"}

(* The filtered set of the call: what apply_filters returned *)
Filtered == ApplyFilters(ToDataframe(transactions), call.filters)

Returned(op) == call.op = op /\ ~result.raised

(* The sum of the amounts of the rows whose amount has the sign (1 or -1) *)
SignedSum(rows, sign) ==
  SumSeq([i \in DOMAIN rows |->
            IF "amount" \in DOMAIN rows[i] /\ rows[i].amount # NaN
               /\ rows[i].amount[1] * sign > 0
            THEN rows[i].amount[1] ELSE 0])

(* C1: in every Profit & Loss result of a non-empty filtered set,          *)
(* net_income = total_income - total_expenses, total_income is the sum of  *)
(* the amounts > 0 and total_expenses the absolute value of the sum of the *)
(* amounts < 0 of the filtered set                                         *)
C1_NetIncomeIdentity ==
  (Returned("profit_and_loss") /\ NRows(Filtered) > 0) =>
    /\ result.data.net_income =
         result.data.total_income - result.data.total_expenses
    /\ result.data.total_income = SignedSum(Rows(Filtered), 1)
    /\ result.data.total_expenses = Abs(SignedSum(Rows(Filtered), -1))

(* C1 witness: a Profit & Loss result with both income and expenses *)
C1_Witness ==
  /\ Returned("profit_and_loss")
  /\ NRows(Filtered) = 2
  /\ result.data.total_income > 0
  /\ result.data.total_expenses > 0

(* The rows of the filtered set that fall in a period *)
RowsOfPeriod(label) ==
  SelectSeq(Rows(Filtered), LAMBDA r : PeriodLabel(call.grouping, r.date) = label)

(* C2: in every Cash Flow result each period has net_flow = inflow -       *)
(* outflow, with inflow the sum of the positive and outflow the absolute   *)
(* sum of the negative amounts of the period; the running_balance of the   *)
(* i-th period is the sum of net_flow over the periods 1..i in the listed  *)
(* order, so the last running_balance is the sum of every net_flow         *)
C2_RunningBalance ==
  Returned("cash_flow") =>
    LET ps == result.data.periods
        NetUpTo(i) == SumSeq([j \in 1..i |-> ps[j].net_flow])
    IN /\ \A i \in DOMAIN ps :
            /\ ps[i].net_flow = ps[i].inflow - ps[i].outflow
            /\ ps[i].running_balance = NetUpTo(i)
            /\ ps[i].period # NaNText =>
                 /\ ps[i].inflow = SignedSum(RowsOfPeriod(ps[i].period), 1)
                 /\ ps[i].outflow = Abs(SignedSum(RowsOfPeriod(ps[i].period), -1))
       /\ ps # <<>> => ps[Len(ps)].running_balance = NetUpTo(Len(ps))

(* C2 witness: a Cash Flow result of two periods, an inflow in one and an  *)
(* outflow in the other                                                    *)
C2_Witness ==
  /\ Returned("cash_flow")
  /\ Len(result.data.periods) = 2
  /\ result.data.periods[1].inflow > 0
  /\ result.data.periods[2].outflow > 0
  /\ result.data.periods[2].running_balance # result.data.periods[2].net_flow

(* C3, as claimed: in every Category Analysis result without top_n and     *)
(* with total_amount # 0, the percentage_of_total of all categories sum to *)
(* 100, also when positive and negative amounts are mixed (stated for      *)
(* records that carry every field)                                         *)
C3_PercentagesSumTo100 ==
  (Returned("category_analysis") /\ call.top_n = None
     /\ Range(transactions) \subseteq WellFormed
     /\ result.data.total_amount # 0) =>
    LET cs == result.data.categories
    IN /\ \A i \in DOMAIN cs :
            cs[i].percentage_of_total.den = Abs(result.data.total_amount)
       /\ SumSeq([i \in DOMAIN cs |-> cs[i].percentage_of_total.num])
            = 100 * Abs(result.data.total_amount)

(* The numeric fields and group lists of a result that must be zero and    *)
(* empty for an empty filtered set                                         *)
IsZeroResult(op, data) ==
  CASE op = "profit_and_loss" ->
         /\ data.total_income = 0 /\ data.total_expenses = 0
         /\ data.net_income = 0 /\ data.transaction_count = 0
         /\ data.income_by_category = <<>> /\ data.expenses_by_category = <<>>
    [] op = "cash_flow" ->
         /\ data.periods = <<>> /\ data.total_inflow = 0
         /\ data.total_outflow = 0 /\ data.net_cash_flow = 0
    [] op = "category_analysis" ->
         data.categories = <<>> /\ data.total_amount = 0 /\ data.category_count = 0
    [] op = "merchant_analysis" ->
         data.merchants = <<>> /\ data.total_amount = 0 /\ data.merchant_count = 0
    [] op = "trend_analysis" -> data.periods = <<>>
    [] op = "account_summary" ->
         data.accounts = <<>> /\ data.total_balance_change = 0
    [] OTHER -> FALSE

(* C6: each of the six generators, when the filtered set is empty (no      *)
(* transactions, or a filter that leaves no row), returns without error a  *)
(* result whose numeric fields are 0 and whose group lists are empty       *)
C6_EmptyIsZero ==
  (call.op \in SixReports /\ NRows(Filtered) = 0) =>
    ~result.raised /\ IsZeroResult(call.op, result.data)

(* C6 witness: a generator called on transactions all of which the filter  *)
(* removes                                                                 *)
C6_Witness ==
  /\ call.op \in SixReports
  /\ Len(transactions) = 2
  /\ call.filters.min_amount # None
  /\ NRows(Filtered) = 0
  /\ ~result.raised

(* C7, as claimed: on a non-empty transaction list with records that lack  *)
(* a field or carry an unparseable date or amount, each of the six         *)
(* generators returns a result                                             *)
C7_NeverRaises ==
  (call.op \in SixReports /\ transactions # <<>>) => ~result.raised

(* A non-empty result of the report type and parameters of a call *)
ReferenceResult(c) ==
  Generate(<<Base1(1), Base2(-2)>>, [c EXCEPT !.filters = NoFilter])

(* C8, as claimed: for each report type the result carries the same keys   *)
(* and the same report_type tag whether the filtered set is empty or not   *)
C8_SameKeys ==
  (call.op \in SixReports /\ ~result.raised) =>
    /\ DOMAIN result.data = DOMAIN ReferenceResult(call).data
    /\ result.data.report_type = ReferenceResult(call).data.report_type

(* C4: a generator called twice on one builder with the same filter and   *)
(* parameters returns equal results, whatever calls were made in between   *)
C4_Idempotent ==
  (seen # None /\ call = seen[1].call) => result = seen[1].result

(* C4 witness: a call repeated after a different call, with a result that  *)
(* is not the empty one                                                    *)
C4_Witness ==
  /\ seen # None
  /\ seen[1].between
  /\ call = seen[1].call
  /\ call.op = "cash_flow"
  /\ ~result.raised
  /\ result.data.periods # <<>>

(* C5: after any sequence of report calls on one builder the transaction   *)
(* list and its records are what they were at construction, and the result *)
(* of the last call is the result of that call run alone on them           *)
C5_InputUnchanged ==
  /\ transactions = initial
  /\ call # NoCall => result = Generate(initial, call)

(* C5 witness: a Cash Flow report that set the date and period columns of  *)
(* its frame, then a custom report on the same builder that returns the    *)
(* two records, one of them without an amount, and no period with them     *)
C5_Witness ==
  /\ seen # None
  /\ seen[1].between
  /\ seen[1].call.op = "cash_flow"
  /\ ~seen[1].result.raised
  /\ seen[1].result.data.periods # <<>>
  /\ call.op = "custom_report"
  /\ ~result.raised
  /\ Len(transactions) = 2
  /\ \E i \in DOMAIN transactions : "amount" \notin DOMAIN transactions[i]
  /\ Len(result.data.transactions) = 2
  /\ \A k \in DOMAIN result.data.transactions :
       "period" \notin DOMAIN result.data.transactions[k]

-----------------------------------------------------------------------------
(* Properties of the filter evaluator *)

(* t occurs in s as a run of characters *)
LiteralContains(s, t) ==
  \E i \in 0..(Len(s) - Len(t)) : SubSeq(s, i + 1, i + Len(t)) = t

(* Every character of every term is a letter *)
LettersOnly(terms) ==
  \A k \in DOMAIN terms : \A j \in DOMAIN terms[k] :
     LowerChar(terms[k][j]) \in
       {"a", "b", "c", "d", "e", "f", "g", "h", "i", "j", "k", "l", "m", "n",
        "o", "p", "q", "r", "s", "t", "u", "v", "w", "x", "y", "z"}

(* The record has the text field, equal without case to a listed value *)
ListsField(rec, field, values) ==
  /\ field \in DOMAIN rec
  /\ \E k \in DOMAIN values : Lower(rec[field]) = Lower(values[k])

(* The record has a merchant that contains a listed term, without case *)
ContainsTerm(rec, terms) ==
  /\ "merchant" \in DOMAIN rec
  /\ \E k \in DOMAIN terms :
        LiteralContains(Lower(rec.merchant), Lower(terms[k]))

HasDate(rec) == "date" \in DOMAIN rec /\ IsCalendarDate(rec.date)

HasAmount(rec) == "amount" \in DOMAIN rec /\ rec.amount[1] = "num"

(* The record has the text field, which contains the text, without case *)
ContainsText(rec, field, text) ==
  field \in DOMAIN rec /\ LiteralContains(Lower(rec[field]), Lower(text))

(* The record satisfies every option that is set, each on its own field *)
Satisfies(rec, f) ==
  /\ f.start_date # None => HasDate(rec) /\ DateLeq(f.start_date[1], rec.date)
  /\ f.end_date # None => HasDate(rec) /\ DateLeq(rec.date, f.end_date[1])
  /\ f.min_amount # None => HasAmount(rec) /\ rec.amount[2] >= f.min_amount[1]
  /\ f.max_amount # None => HasAmount(rec) /\ rec.amount[2] <= f.max_amount[1]
  /\ f.categories # None => ListsField(rec, "category", f.categories[1])
  /\ f.exclude_categories # None =>
       ~ListsField(rec, "category", f.exclude_categories[1])
  /\ f.accounts # None => ListsField(rec, "account", f.accounts[1])
  /\ f.merchants # None => ContainsTerm(rec, f.merchants[1])
  /\ f.exclude_merchants # None => ~ContainsTerm(rec, f.exclude_merchants[1])
  /\ f.description_contains # None =>
       ContainsText(rec, "description", f.description_contains[1])
  /\ f.notes_contains # None => ContainsText(rec, "notes", f.notes_contains[1])

(* The patterns of the filter are non-empty and made of letters *)
PlainPatterns(f) ==
  /\ \A k \in {"merchants", "exclude_merchants"} :
        f[k] # None => LettersOnly(f[k][1])
  /\ \A k \in {"description_contains", "notes_contains"} :
        f[k] # None => f[k][1] # <<>> /\ LettersOnly(<<f[k][1]>>)

(* C9, as claimed: apply_filters returns exactly the records that satisfy  *)
(* every set option, in their original order (stated for patterns that    *)
(* are non-empty and made of letters)                                      *)
C9_ExactSubsequence ==
  (call.op = "apply_filters" /\ PlainPatterns(call.filters)) =>
    /\ ~result.raised
    /\ result.data.index =
         SelectSeq([i \in DOMAIN transactions |-> i],
                   LAMBDA i : Satisfies(transactions[i], call.filters))

(* C10, as claimed: with a merchants allow-list, a record passes iff its   *)
(* merchant contains a listed term as a literal substring, without case,   *)
(* whatever characters the term has (stated for records with a merchant)   *)
C10_LiteralSubstring ==
  (call.op = "apply_filters" /\ call.filters.merchants # None
     /\ call.filters.max_amount = None
     /\ \A i \in DOMAIN transactions : "merchant" \in DOMAIN transactions[i]) =>
    /\ ~result.raised
    /\ \A i \in DOMAIN transactions :
          (i \in Range(result.data.index))
            <=> ContainsTerm(transactions[i], call.filters.merchants[1])

(* Only the options named in S are set *)
OnlyOptions(f, S) == \A k \in DOMAIN f \ S : f[k] = None

(* The labels of the records that satisfy P, as a sequence in list order;  *)
(* P is the set of the labels that qualify                                 *)
LabelsIn(P) ==
  SelectSeq([i \in DOMAIN transactions |-> i], LAMBDA i : i \in P)

(* C11, as claimed: with min_amount and/or max_amount set, exactly the     *)
(* records with min_amount <= amount <= max_amount pass, bounds included,  *)
(* and with min_amount > max_amount the result is empty, without error     *)
C11_AmountBoundsInclusive ==
  (call.op = "apply_filters"
     /\ (call.filters.min_amount # None \/ call.filters.max_amount # None)
     /\ OnlyOptions(call.filters, {"min_amount", "max_amount"})) =>
    /\ ~result.raised
    /\ result.data.index =
         LabelsIn({i \in DOMAIN transactions :
                     Satisfies(transactions[i], call.filters)})

(* C12, as claimed: with start_date or end_date set, every record of the   *)
(* result has a parseable date within the bounds, and every record with a  *)
(* missing or unparseable date is dropped, also when no record of the list *)
(* carries a date                                                          *)
C12_DateBounds ==
  (call.op = "apply_filters"
     /\ (call.filters.start_date # None \/ call.filters.end_date # None)
     /\ OnlyOptions(call.filters, {"start_date", "end_date"})) =>
    /\ ~result.raised
    /\ \A i \in Range(result.data.index) :
          Satisfies(transactions[i], call.filters)
    /\ \A i \in DOMAIN transactions :
          ~HasDate(transactions[i]) => i \notin Range(result.data.index)

(* C13, as claimed: with a categories (accounts) allow-list, the result    *)
(* holds exactly the records whose category (account) equals a listed      *)
(* value ignoring case; a record without the field is excluded, whatever   *)
(* fields the other records carry                                          *)
C13_AllowListExact ==
  (call.op = "apply_filters"
     /\ (call.filters.categories # None \/ call.filters.accounts # None)
     /\ OnlyOptions(call.filters, {"categories", "accounts"})) =>
    /\ ~result.raised
    /\ result.data.index =
         LabelsIn({i \in DOMAIN transactions :
                     Satisfies(transactions[i], call.filters)})

(* The record has the text field, and it is not the empty string *)
PresentNonEmpty(rec, field) == field \in DOMAIN rec /\ rec[field] # <<>>

(* C15, as claimed: a filter with notes_contains = "" (description_contains *)
(* = "") keeps only the records whose notes (description) is present and   *)
(* not empty (stated for lists in which some record carries the field)     *)
C15_EmptyStringMeansPresent ==
  /\ (call.op = "apply_filters" /\ call.filters.notes_contains = Some(<<>>)
        /\ "notes" \in result.data.columns) =>
       /\ ~result.raised
       /\ \A i \in Range(result.data.index) :
             PresentNonEmpty(transactions[i], "notes")
  /\ (call.op = "apply_filters"
        /\ call.filters.description_contains = Some(<<>>)
        /\ "description" \in result.data.columns) =>
       /\ ~result.raised
       /\ \A i \in Range(result.data.index) :
             PresentNonEmpty(transactions[i], "description")

(* What apply_filters returns on the transactions for another filter *)
Alone(f) == FilterTransactions(ReportBuilder(transactions), f).result

(* The deny-list result drops exactly the records that carry the field and *)
(* that the allow-list with the same values keeps                          *)
DenyInverts(field, allow) ==
  /\ result.raised = Alone(allow).raised
  /\ ~result.raised =>
       \A i \in DOMAIN transactions :
          (i \notin Range(result.data.index))
            <=> (field \in DOMAIN transactions[i]
                   /\ i \in Range(Alone(allow).data.index))

(* With both lists set the result is the allow-list result without the     *)
(* records the deny-list drops                                             *)
AllowMinusDeny(allow, deny) ==
  /\ ~result.raised /\ ~Alone(allow).raised /\ ~Alone(deny).raised
  /\ result.data.index =
       SelectSeq(Alone(allow).data.index,
                 LAMBDA i : i \in Range(Alone(deny).data.index))

(* C14: a deny-list drops a record if and only if the allow-list rule for  *)
(* the same list matches it (exclude_categories: the category equals a     *)
(* listed value ignoring case; exclude_merchants: the merchants rule); an  *)
(* allow-list and a deny-list on one field are both applied                *)
C14_DenyListInverts ==
  LET f == call.filters
  IN call.op = "apply_filters" =>
       /\ (f.exclude_categories # None
             /\ OnlyOptions(f, {"exclude_categories"})) =>
            /\ DenyInverts("category",
                 [NoFilter EXCEPT !.categories = f.exclude_categories])
            /\ \A i \in DOMAIN transactions :
                  (i \notin Range(result.data.index))
                    <=> ListsField(transactions[i], "category",
                                   f.exclude_categories[1])
       /\ (f.exclude_merchants # None
             /\ OnlyOptions(f, {"exclude_merchants"})) =>
            DenyInverts("merchant",
              [NoFilter EXCEPT !.merchants = f.exclude_merchants])
       /\ (f.categories # None /\ f.exclude_categories # None
             /\ OnlyOptions(f, {"categories", "exclude_categories"})) =>
            AllowMinusDeny([f EXCEPT !.exclude_categories = None],
                           [f EXCEPT !.categories = None])
       /\ (f.merchants # None /\ f.exclude_merchants # None
             /\ OnlyOptions(f, {"merchants", "exclude_merchants"})) =>
            AllowMinusDeny([f EXCEPT !.exclude_merchants = None],
                           [f EXCEPT !.merchants = None])

(* C14 witness: a category deny-list that drops one record and keeps one   *)
(* that has no category, in a list where the category column exists        *)
C14_Witness ==
  /\ call.op = "apply_filters"
  /\ call.filters.exclude_categories # None
  /\ call.filters.categories = None
  /\ ~result.raised
  /\ Len(transactions) = 2
  /\ "category" \notin DOMAIN transactions[2]
  /\ result.data.index = <<2>>

-----------------------------------------------------------------------------
(* Properties of the period labels *)

TimeReports == {"cash_flow", "trend_analysis"}

TwoDigits(n) == <<Digit(n \div 10), Digit(n % 10)>>

FourDigits(n) == TwoDigits(n \div 100) \o TwoDigits(n % 100)

(* YYYY-MM-DD *)
Ymd(d) ==
  FourDigits(d[1]) \o <<"-">> \o TwoDigits(d[2]) \o <<"-">> \o TwoDigits(d[3])

(* The ISO week identifier YYYY-Www: the week belongs to the year of its   *)
(* Thursday, and week 1 holds the first Thursday of the year               *)
IsoWeekId(d) ==
  LET thursday == FromOrdinal(Ordinal(d) - Weekday(d) + 3)
      week == ((Ordinal(thursday) - Ordinal(<<thursday[1], 1, 1>>)) \div 7) + 1
  IN FourDigits(thursday[1]) \o <<"-", "W">> \o TwoDigits(week)

(* The Monday on or before the date, and the Sunday after it, joined by /  *)
WeekRange(d) ==
  LET monday == CHOOSE n \in (Ordinal(d) - 6)..Ordinal(d) :
                     Weekday(FromOrdinal(n)) = 0
  IN Ymd(FromOrdinal(monday)) \o <<"/">> \o Ymd(FromOrdinal(monday + 6))

Quarter(d) == CHOOSE q \in 1..4 : d[2] \in (3 * q - 2)..(3 * q)

(* The label forms as claimed *)
ClaimedLabel(grouping, d) ==
  CASE grouping = "daily" -> Ymd(d)
    [] grouping = "weekly" -> IsoWeekId(d)
    [] grouping = "monthly" -> FourDigits(d[1]) \o <<"-">> \o TwoDigits(d[2])
    [] grouping = "quarterly" ->
         FourDigits(d[1]) \o <<"-", "Q">> \o <<Digit(Quarter(d))>>
    [] grouping = "yearly" -> FourDigits(d[1])

(* The label forms as amended: the week as its Monday/Sunday range, the    *)
(* quarter as YYYYQ#                                                       *)
AmendedLabel(grouping, d) ==
  CASE grouping = "weekly" -> WeekRange(d)
    [] grouping = "quarterly" ->
         FourDigits(d[1]) \o <<"Q">> \o <<Digit(Quarter(d))>>
    [] OTHER -> ClaimedLabel(grouping, d)

(* The dates of the filtered records, all of them dated *)
AllDated ==
  /\ "date" \in Filtered.columns
  /\ \A i \in DOMAIN Rows(Filtered) : Rows(Filtered)[i].date # NaT

FilteredDates == {Rows(Filtered)[i].date : i \in DOMAIN Rows(Filtered)}

ResultLabels == {result.data.periods[k].period : k \in DOMAIN result.data.periods}

(* C16, as claimed: the period values of Cash Flow and Trend Analysis are  *)
(* daily YYYY-MM-DD, weekly the ISO week identifier, monthly YYYY-MM,      *)
(* quarterly YYYY-Q#, yearly YYYY                                          *)
C16_LabelFormsClaimed ==
  (call.op \in TimeReports /\ ~result.raised /\ AllDated) =>
    ResultLabels = {ClaimedLabel(call.grouping, d) : d \in FilteredDates}

(* C16, amended: daily YYYY-MM-DD, weekly the range YYYY-MM-DD/YYYY-MM-DD  *)
(* from the Monday to the Sunday of the week of the date, monthly YYYY-MM, *)
(* quarterly YYYYQ#, yearly YYYY                                           *)
C16_LabelForms ==
  (call.op \in TimeReports /\ ~result.raised /\ AllDated) =>
    ResultLabels = {AmendedLabel(call.grouping, d) : d \in FilteredDates}

(* C16 witness: a weekly report with two periods, one of them the week     *)
(* that runs from 2024 into 2025                                           *)
C16_Witness ==
  /\ call.op \in TimeReports
  /\ call.grouping = "weekly"
  /\ ~result.raised
  /\ AllDated
  /\ Len(result.data.periods) = 2
  /\ <<2025, 1, 1>> \in FilteredDates

(* The dated filtered rows whose label is the one of period k *)
DatesOfPeriod(k) ==
  {d \in FilteredDates \ {NaT} :
     PeriodLabel(call.grouping, d) = result.data.periods[k].period}

(* C17: for dated records d1 <= d2 the label of d1 is not after the label  *)
(* of d2 as a string, and the periods of every Cash Flow and Trend         *)
(* Analysis result are strictly increasing, no label twice, earlier dates  *)
(* in earlier periods                                                      *)
C17_LabelsSortChronologically ==
  (call.op \in TimeReports /\ ~result.raised /\ "date" \in Filtered.columns) =>
    LET ps == result.data.periods
    IN /\ \A d1, d2 \in FilteredDates \ {NaT} :
             DateLeq(d1, d2) =>
               ~StrLess(PeriodLabel(call.grouping, d2),
                        PeriodLabel(call.grouping, d1))
       /\ \A k \in 1..(Len(ps) - 1) : StrLess(ps[k].period, ps[k + 1].period)
       /\ \A k1, k2 \in DOMAIN ps :
             k1 < k2 =>
               \A d1 \in DatesOfPeriod(k1), d2 \in DatesOfPeriod(k2) :
                  DateLeq(d1, d2) /\ d1 # d2

(* C17 witness: two periods whose dates lie in different years, the later  *)
(* date first in the list of records                                       *)
C17_Witness ==
  /\ call.op \in TimeReports
  /\ ~result.raised
  /\ "date" \in Filtered.columns
  /\ Len(result.data.periods) = 2
  /\ Len(transactions) = 2
  /\ \A i \in DOMAIN transactions : "date" \in DOMAIN transactions[i]
  /\ transactions[1].date = <<2025, 1, 6>>
  /\ transactions[2].date = <<2024, 12, 29>>
  /\ DatesOfPeriod(1) = {<<2024, 12, 29>>}

(* The filtered rows that have a date *)
DatedRows ==
  IF "date" \in Filtered.columns
  THEN SelectSeq(Rows(Filtered), LAMBDA r : r.date # NaT)
  ELSE <<>>

(* C18, as claimed: a Cash Flow report on records some of which have no    *)
(* date or an unparseable one is produced without error, its periods hold  *)
(* the dated records only, and total_inflow, total_outflow and             *)
(* net_cash_flow are computed over all filtered records, dated or not      *)
C18_UndatedInTotals ==
  (call.op = "cash_flow" /\ NRows(Filtered) > 0
     /\ Len(DatedRows) < NRows(Filtered)) =>
    /\ ~result.raised
    /\ \A k \in DOMAIN result.data.periods :
          \E i \in DOMAIN DatedRows :
             result.data.periods[k].period
               = PeriodLabel(call.grouping, DatedRows[i].date)
    /\ SumSeq([k \in DOMAIN result.data.periods |->
                 result.data.periods[k].transaction_count]) = Len(DatedRows)
    /\ result.data.total_inflow = SignedSum(Rows(Filtered), 1)
    /\ result.data.total_outflow = Abs(SignedSum(Rows(Filtered), -1))
    /\ result.data.net_cash_flow
         = result.data.total_inflow - result.data.total_outflow

(* The filtered rows of a merchant, in record order *)
MerchantRows(m) == GroupRows(Rows(Filtered), "merchant", m)

CategoryCount(rows, v) == Len(SelectSeq(rows, LAMBDA r : r.category = v))

(* The categories no other category of the rows is more frequent than *)
MostFrequent(rows) ==
  LET vals == {rows[i].category : i \in DOMAIN rows} \ {NaNText}
  IN {v \in vals : \A w \in vals : CategoryCount(rows, w) <= CategoryCount(rows, v)}

(* The place of the first row of a category *)
FirstIndex(rows, v) ==
  CHOOSE i \in DOMAIN rows :
    rows[i].category = v /\ \A j \in 1..(i - 1) : rows[j].category # v

(* C19, as claimed: the primary_category of a merchant is a most frequent  *)
(* category of the merchant's records and, of the categories that tie for  *)
(* most frequent, the one encountered first in the record sequence         *)
C19_TieFirstEncountered ==
  Returned("merchant_analysis") =>
    \A k \in DOMAIN result.data.merchants :
      LET e == result.data.merchants[k]
          rows == MerchantRows(e.merchant)
          top == MostFrequent(rows)
      IN top # {} =>
           /\ e.primary_category \in top
           /\ \A w \in top :
                FirstIndex(rows, e.primary_category) <= FirstIndex(rows, w)

(* C19, amended: the primary_category of a merchant is a most frequent     *)
(* category of the merchant's records and, of the categories that tie for  *)
(* most frequent, the one that sorts first as a string                     *)
C19_TieSortsFirst ==
  Returned("merchant_analysis") =>
    \A k \in DOMAIN result.data.merchants :
      LET e == result.data.merchants[k]
          rows == MerchantRows(e.merchant)
          top == MostFrequent(rows)
      IN top # {} =>
           /\ e.primary_category \in top
           /\ \A w \in top \ {e.primary_category} :
                StrLess(e.primary_category, w)

(* A merchant with three records under two categories, the less frequent   *)
(* one first, next to a merchant whose two categories tie                  *)
C19_Witness ==
  /\ Returned("merchant_analysis")
  /\ \E k \in DOMAIN result.data.merchants :
       LET e == result.data.merchants[k]
           rows == MerchantRows(e.merchant)
           top == MostFrequent(rows)
       IN /\ Cardinality(top) = 2
          /\ e.primary_category \in top
          /\ FirstIndex(rows, e.primary_category) > 1

(* A merchant whose most frequent category is not the first one seen *)
C19_WitnessMode ==
  /\ Returned("merchant_analysis")
  /\ \E k \in DOMAIN result.data.merchants :
       LET e == result.data.merchants[k]
           rows == MerchantRows(e.merchant)
       IN /\ Len(rows) = 3
          /\ MostFrequent(rows) = {e.primary_category}
          /\ rows[1].category \notin {e.primary_category, NaNText}

(* The total of each category of the filtered set *)
CategoryTotals ==
  LET keys == GroupKeys(Rows(Filtered), "category")
  IN [k \in DOMAIN keys |->
        [category |-> keys[k],
         total |-> SumAmount(GroupRows(Rows(Filtered), "category", keys[k]))]]

(* C20: with a filter that keeps expenses only (max_amount < 0),           *)
(* category_analysis(top_n = k) returns k categories, or all when there    *)
(* are fewer, and no omitted category has a larger absolute total than a   *)
(* returned one                                                            *)
C20_TopExpenseCategories ==
  (/\ Returned("category_analysis")
   /\ call.filters.max_amount # None /\ call.filters.max_amount[1] < 0
   /\ call.top_n # None /\ call.top_n[1] > 0
   /\ "category" \in Filtered.columns) =>
    LET returned == {result.data.categories[i].category :
                       i \in DOMAIN result.data.categories}
        all == CategoryTotals
    IN /\ Len(result.data.categories)
            = (IF call.top_n[1] < Len(all) THEN call.top_n[1] ELSE Len(all))
       /\ \A i \in DOMAIN all : all[i].category \in returned =>
            \E j \in DOMAIN result.data.categories :
               /\ result.data.categories[j].category = all[i].category
               /\ result.data.categories[j].total = all[i].total
       /\ \A i, j \in DOMAIN all :
            (all[i].category \notin returned /\ all[j].category \in returned)
              => Abs(all[i].total) <= Abs(all[j].total)

(* group_by is not given, or names no field of the filtered data *)
Ungrouped ==
  \/ call.group_by = None
  \/ call.group_by[1] = ""
  \/ call.group_by[1] \notin Filtered.columns

(* The sort of the call names no field of the filtered data *)
SortIgnored == call.sort # None /\ call.sort[1].field \notin Filtered.columns

(* b holds the entries of a, each as often, in some order *)
SameEntries(a, b) ==
  /\ Len(a) = Len(b)
  /\ \A x \in {a[i] : i \in DOMAIN a} \cup {b[i] : i \in DOMAIN b} :
       Cardinality({i \in DOMAIN a : a[i] = x})
         = Cardinality({i \in DOMAIN b : b[i] = x})

(* C21: when group_by is not given or names a field absent from the data,  *)
(* custom_report returns without error the filtered records under          *)
(* `transactions`, one entry per filtered record, with transaction_count   *)
(* their number; a sort that names an absent field leaves the filtered     *)
(* order as it is                                                          *)
C21_CustomFallback ==
  (call.op = "custom_report" /\ Ungrouped) =>
    /\ ~result.raised
    /\ "transactions" \in DOMAIN result.data
    /\ SameEntries(result.data.transactions, Rows(Filtered))
    /\ result.data.transaction_count = NRows(Filtered)
    /\ (call.sort = None \/ SortIgnored) =>
          result.data.transactions = Rows(Filtered)

(* C22: custom_report on an empty transaction list, with any filter, sort  *)
(* and group_by, returns a result with total_amount 0, transaction_count 0 *)
(* and an empty record list                                                *)
C22_CustomEmptyInput ==
  (call.op = "custom_report" /\ transactions = <<>>) =>
    /\ ~result.raised
    /\ result.data.total_amount = 0
    /\ result.data.transaction_count = 0
    /\ "transactions" \in DOMAIN result.data
    /\ result.data.transactions = <<>>

(* The fraction q is the quotient of part by whole, times 100 *)
IsPercentage(q, part, whole) ==
  IF whole # 0
  THEN q.den # 0 /\ q.num * Abs(whole) = Abs(part) * 100 * q.den
  ELSE q.num = 0 /\ q.den # 0

(* C23: Category Analysis sorts by total descending and then truncates:    *)
(* with top_n = k it holds min(k, number of categories) categories, all    *)
(* of them without top_n; category_count is that number; the totals are    *)
(* non-increasing; no omitted category has a greater total than a returned *)
(* one; total_amount and each percentage_of_total are taken against the    *)
(* whole filtered set                                                      *)
C23_SortThenTruncate ==
  (Returned("category_analysis") /\ ~IsEmpty(Filtered)
     /\ "category" \in Filtered.columns) =>
    LET cats == result.data.categories
        all == CategoryTotals
        returned == {cats[i].category : i \in DOMAIN cats}
        n == IF call.top_n # None /\ call.top_n[1] # 0 /\ call.top_n[1] < Len(all)
             THEN call.top_n[1] ELSE Len(all)
    IN /\ Len(cats) = n
       /\ Cardinality(returned) = n
       /\ result.data.category_count = n
       /\ \A i, j \in DOMAIN cats : i < j => cats[i].total >= cats[j].total
       /\ \A i \in DOMAIN cats : \E a \in DOMAIN all :
            all[a].category = cats[i].category /\ all[a].total = cats[i].total
       /\ \A a, b \in DOMAIN all :
            (all[a].category \notin returned /\ all[b].category \in returned)
              => all[a].total <= all[b].total
       /\ result.data.total_amount = SumAmount(Rows(Filtered))
       /\ \A i \in DOMAIN cats :
            IsPercentage(cats[i].percentage_of_total, cats[i].total,
                         SumAmount(Rows(Filtered)))

(* top_n = 1 cuts off a category of a different total, and the total of    *)
(* the kept one is not the total of the filtered set                       *)
C23_Witness ==
  /\ Returned("category_analysis")
  /\ call.top_n = Some(1)
  /\ "category" \in Filtered.columns
  /\ Len(CategoryTotals) = 2
  /\ CategoryTotals[1].total # CategoryTotals[2].total
  /\ Len(result.data.categories) = 1
  /\ result.data.total_amount # 0
  /\ result.data.total_amount # result.data.categories[1].total

(* The filtered rows of one sign: 1 for income, -1 for expenses *)
RowsOfSign(sign) ==
  SelectSeq(Rows(Filtered),
            LAMBDA r : r.amount # NaN /\ r.amount[1] * sign > 0)

(* A by-category list of Profit & Loss against the rows it summarises:     *)
(* one entry per category of the rows, total the absolute sum of the       *)
(* category, in non-increasing order of total, pct[i] the share of the     *)
(* total in grand                                                          *)
IsBreakdown(list, pct, rows, grand) ==
  /\ Len(pct) = Len(list)
  /\ {list[i].category : i \in DOMAIN list}
       = {rows[j].category : j \in DOMAIN rows} \ {NaNText}
  /\ \A i, j \in DOMAIN list : i < j =>
       /\ list[i].category # list[j].category
       /\ list[i].total >= list[j].total
  /\ \A i \in DOMAIN list :
       /\ list[i].total
            = Abs(SumAmount(GroupRows(rows, "category", list[i].category)))
       /\ IsPercentage(pct[i], list[i].total, grand)

(* C24: in a Profit & Loss result the income rows and the expense rows are *)
(* each grouped by category, each list is in non-increasing order of total *)
(* (expense totals absolute), and each percentage_of_income /              *)
(* percentage_of_expenses is the total over the grand total of its side    *)
(* times 100, 0 when that grand total is 0                                 *)
C24_BreakdownByCategory ==
  (Returned("profit_and_loss") /\ ~IsEmpty(Filtered)
     /\ "category" \in Filtered.columns) =>
    LET inc == result.data.income_by_category
        exp == result.data.expenses_by_category
    IN /\ result.data.total_income = SignedSum(Rows(Filtered), 1)
       /\ result.data.total_expenses = Abs(SignedSum(Rows(Filtered), -1))
       /\ IsBreakdown(inc, [i \in DOMAIN inc |-> inc[i].percentage_of_income],
                      RowsOfSign(1), result.data.total_income)
       /\ IsBreakdown(exp, [i \in DOMAIN exp |-> exp[i].percentage_of_expenses],
                      RowsOfSign(-1), result.data.total_expenses)

(* Two expense categories of different totals next to an income category *)
C24_Witness ==
  /\ Returned("profit_and_loss")
  /\ Len(result.data.expenses_by_category) = 2
  /\ result.data.expenses_by_category[1].total
       > result.data.expenses_by_category[2].total
  /\ Len(result.data.income_by_category) = 1

(* The total of each merchant of the filtered set *)
MerchantTotals ==
  LET keys == GroupKeys(Rows(Filtered), "merchant")
  IN [k \in DOMAIN keys |->
        [merchant |-> keys[k], total |-> SumAmount(MerchantRows(keys[k]))]]

(* The top_n of the merchant_analysis call; 20 when the caller gave none *)
TopNOrDefault == IF call.top_n = None THEN DefaultTopN ELSE call.top_n[1]

(* The result lists n merchants, each once with its own total, in          *)
(* non-increasing order of the absolute total, and omits no merchant of a  *)
(* larger absolute total                                                   *)
ListsTopMerchants(n) ==
  LET ms == result.data.merchants
      all == MerchantTotals
      returned == {ms[i].merchant : i \in DOMAIN ms}
  IN /\ Len(ms) = n
     /\ Cardinality(returned) = n
     /\ result.data.merchant_count = n
     /\ \A i, j \in DOMAIN ms : i < j => Abs(ms[i].total) >= Abs(ms[j].total)
     /\ \A i \in DOMAIN ms : \E a \in DOMAIN all :
          all[a].merchant = ms[i].merchant /\ all[a].total = ms[i].total
     /\ \A a, b \in DOMAIN all :
          (all[a].merchant \notin returned /\ all[b].merchant \in returned)
            => Abs(all[a].total) <= Abs(all[b].total)

(* C25: Merchant Analysis lists the merchants in non-increasing order of   *)
(* the absolute total and then truncates to top_n, 20 when none is given:  *)
(* it holds min(top_n, number of merchants) merchants, each once with its  *)
(* total, and no omitted merchant has a larger absolute total than a       *)
(* returned one                                                            *)
C25_TopMerchantsByAbs ==
  (Returned("merchant_analysis") /\ ~IsEmpty(Filtered)
     /\ "merchant" \in Filtered.columns) =>
    ListsTopMerchants(IF TopNOrDefault < Len(MerchantTotals)
                      THEN TopNOrDefault ELSE Len(MerchantTotals))

(* The claim of C25 for the calls that hand a number to merchant_analysis, *)
(* and every merchant listed for the call that hands it None               *)
C25_TopMerchantsOfCall ==
  (Returned("merchant_analysis") /\ ~IsEmpty(Filtered)
     /\ "merchant" \in Filtered.columns) =>
    ListsTopMerchants(IF call.top_n # None /\ call.top_n[1] < Len(MerchantTotals)
                      THEN call.top_n[1] ELSE Len(MerchantTotals))

(* top_n = 1 keeps the merchant with the larger expense and cuts off one   *)
(* whose signed total is greater                                           *)
C25_CutsBySize ==
  /\ Returned("merchant_analysis")
  /\ call.top_n = Some(1)
  /\ "merchant" \in Filtered.columns
  /\ Len(MerchantTotals) = 2
  /\ Len(result.data.merchants) = 1
  /\ \E a \in DOMAIN MerchantTotals :
       /\ MerchantTotals[a].total > result.data.merchants[1].total
       /\ Abs(MerchantTotals[a].total) < Abs(result.data.merchants[1].total)

(* The default of 20 cuts off the merchant of the least absolute total *)
C25_DefaultCuts ==
  /\ Returned("merchant_analysis")
  /\ call.top_n = Some(DefaultTopN)
  /\ Len(MerchantTotals) = DefaultTopN + 1
  /\ Len(result.data.merchants) = DefaultTopN

(* No top_n given on the command line: more than 20 merchants are listed *)
C25_AbsentTopNListsAll ==
  /\ Returned("merchant_analysis")
  /\ call.top_n = None
  /\ Len(MerchantTotals) = DefaultTopN + 1
  /\ Len(result.data.merchants) = DefaultTopN + 1

(* The expense rows of a period *)
ExpensesOfPeriod(label) ==
  SelectSeq(RowsOfPeriod(label), LAMBDA r : r.amount # NaN /\ r.amount[1] < 0)

(* The categories the expense rows of a period carry *)
ExpenseCategories(label) ==
  IF "category" \in Filtered.columns
  THEN {ExpensesOfPeriod(label)[i].category : i \in DOMAIN ExpensesOfPeriod(label)}
         \ {NaNText}
  ELSE {}

ExpenseTotal(label, c) ==
  SumAmount(GroupRows(ExpensesOfPeriod(label), "category", c))

(* net = income - expenses over the rows of the period, and the top        *)
(* expense category, when there is one, has the most negative sum, the     *)
(* one that sorts first among those of the same sum                        *)
TrendPeriodOk(p) ==
  /\ p.income = SignedSum(RowsOfPeriod(p.period), 1)
  /\ p.expenses = Abs(SignedSum(RowsOfPeriod(p.period), -1))
  /\ p.net = p.income - p.expenses
  /\ p.top_expense_category # None =>
       /\ p.top_expense_category[1] \in ExpenseCategories(p.period)
       /\ \A c \in ExpenseCategories(p.period) \ {p.top_expense_category[1]} :
            \/ ExpenseTotal(p.period, p.top_expense_category[1])
                 < ExpenseTotal(p.period, c)
            \/ /\ ExpenseTotal(p.period, p.top_expense_category[1])
                    = ExpenseTotal(p.period, c)
               /\ StrLess(p.top_expense_category[1], c)

(* The periods of a Trend Analysis result that carry a label *)
LabelledPeriods ==
  {k \in DOMAIN result.data.periods : result.data.periods[k].period # NaNText}

(* C26, as claimed: in every Trend Analysis period net = income -          *)
(* expenses, top_expense_category is the category with the most negative   *)
(* sum of the period, fixed by the input when several tie, and it is null  *)
(* exactly when the period has no record with amount < 0                   *)
C26_TopExpenseNullClaimed ==
  Returned("trend_analysis") =>
    \A k \in LabelledPeriods :
      LET p == result.data.periods[k]
      IN /\ TrendPeriodOk(p)
         /\ p.top_expense_category = None <=> ExpensesOfPeriod(p.period) = <<>>

(* C26, amended: in every Trend Analysis period net = income - expenses,   *)
(* top_expense_category is the category with the most negative sum of the  *)
(* period, fixed by the input when several tie, and it is null exactly     *)
(* when the period has no record with amount < 0 that carries a category   *)
C26_TopExpenseCategory ==
  Returned("trend_analysis") =>
    \A k \in LabelledPeriods :
      LET p == result.data.periods[k]
      IN /\ TrendPeriodOk(p)
         /\ p.top_expense_category = None <=> ExpenseCategories(p.period) = {}

(* A period whose two expense categories differ in their sums, the larger  *)
(* expense later in string order                                           *)
C26_Witness ==
  /\ Returned("trend_analysis")
  /\ \E k \in LabelledPeriods :
       LET p == result.data.periods[k]
       IN /\ Cardinality(ExpenseCategories(p.period)) = 2
          /\ p.top_expense_category = Some(Rent)
          /\ ExpenseTotal(p.period, Rent) < ExpenseTotal(p.period, Food)

(* A period whose only expense has no category, next to a record with one *)
C26_WitnessNull ==
  /\ Returned("trend_analysis")
  /\ "category" \in Filtered.columns
  /\ \E k \in LabelledPeriods :
       LET p == result.data.periods[k]
       IN /\ ExpensesOfPeriod(p.period) # <<>>
          /\ ExpenseCategories(p.period) = {}
          /\ p.top_expense_category = None

(* The filtered rows of an account *)
AccountRows(a) == SelectSeq(Rows(Filtered), LAMBDA r : r.account = a /\ a # NaNText)

(* C27: in every Account Summary result each account has balance_change =  *)
(* income - expenses over its records, the accounts are in non-increasing  *)
(* order of |balance_change|, each account of the filtered set is listed   *)
(* exactly once, and total_balance_change is the sum of balance_change     *)
(* over the listed accounts                                                *)
C27_AccountSummary ==
  (Returned("account_summary") /\ ~IsEmpty(Filtered)
     /\ "account" \in Filtered.columns) =>
    LET as == result.data.accounts
    IN /\ {as[i].account : i \in DOMAIN as} \ {NaNText}
            = {Rows(Filtered)[j].account : j \in DOMAIN Rows(Filtered)} \ {NaNText}
       /\ \A i, j \in DOMAIN as : i < j =>
            /\ as[i].account # as[j].account
            /\ Abs(as[i].balance_change) >= Abs(as[j].balance_change)
       /\ \A i \in DOMAIN as :
            /\ as[i].income = SignedSum(AccountRows(as[i].account), 1)
            /\ as[i].expenses = Abs(SignedSum(AccountRows(as[i].account), -1))
            /\ as[i].balance_change = as[i].income - as[i].expenses
            /\ as[i].transaction_count = Len(AccountRows(as[i].account))
       /\ result.data.total_balance_change
            = SumSeq([i \in DOMAIN as |-> as[i].balance_change])

(* Two accounts, the one that sorts later by name first, with the larger   *)
(* change of the other sign                                                *)
C27_Witness ==
  /\ Returned("account_summary")
  /\ Len(result.data.accounts) = 2
  /\ StrLess(result.data.accounts[2].account, result.data.accounts[1].account)
  /\ result.data.accounts[1].balance_change < 0
  /\ result.data.accounts[2].balance_change > 0
  /\ result.data.total_balance_change < 0

(* The filtered rows of a category *)
CategoryRows(c) == GroupRows(Rows(Filtered), "category", c)

(* C28: in every Category Analysis result the std_dev of every category is *)
(* a defined, non-negative number, and it is 0 for a category with a       *)
(* single record                                                           *)
C28_StdDevDefined ==
  Returned("category_analysis") =>
    \A i \in DOMAIN result.data.categories :
      LET e == result.data.categories[i]
      IN /\ e.std_dev.den > 0
         /\ e.std_dev.num >= 0
         /\ Len(CategoryRows(e.category)) = 1 => e.std_dev.num = 0

(* One category with a single record next to one with two records of       *)
(* different amounts                                                       *)
C28_Witness ==
  /\ Returned("category_analysis")
  /\ Len(result.data.categories) = 2
  /\ \E i, j \in DOMAIN result.data.categories :
       /\ Len(CategoryRows(result.data.categories[i].category)) = 1
       /\ result.data.categories[i].std_dev.num = 0
       /\ Len(CategoryRows(result.data.categories[j].category)) = 2
       /\ result.data.categories[j].std_dev.num > 0

(* The handlers whose cleanup_session call has returned or raised *)
AfterCleanup ==
  {h \in Handlers :
     /\ handlers[h].session_id # None
     /\ \/ handlers[h].kind = "login"
             /\ handlers[h].pc \in {"browser", "login", "failed", "done"}
        \/ handlers[h].kind = "logout" /\ handlers[h].pc = "done"
        \/ handlers[h].kind = "request" /\ handlers[h].pc = "done"
             /\ handlers[h].expired}

(* cleanup_session never raises *)
CleanupNeverRaises == \A h \in Handlers : handlers[h].error # "KeyError"

(* No client is closed twice *)
ClosedAtMostOnce == \A s \in SessionIds : closed[s] <= 1

(* After cleanup_session(id) the id is in neither map *)
CleanedUp ==
  \A h \in AfterCleanup :
    /\ handlers[h].session_id[1] \notin user_sessions
    /\ handlers[h].session_id[1] \notin DOMAIN session_timestamps

(* Wherever the handlers are suspended the two maps have the same keys *)
SameKeys == user_sessions = DOMAIN session_timestamps

(* C29: for every interleaving of login, logout and request handlers that  *)
(* call cleanup_session for one session id, cleanup_session never raises,  *)
(* the client is closed at most once, afterwards the id is in neither      *)
(* user_sessions nor session_timestamps, and at every suspension point the *)
(* two maps have the same key set                                          *)
C29_CleanupInterleaved ==
  /\ CleanupNeverRaises
  /\ ClosedAtMostOnce
  /\ CleanedUp
  /\ SameKeys

(* A client that get_client_from_session returned was younger than the    *)
(* timeout when it was returned                                            *)
NeverReturnsExpired ==
  \A h \in Handlers :
    (handlers[h].kind = "request" /\ handlers[h].client # None) =>
      /\ handlers[h].age # None
      /\ handlers[h].age[1] <= SESSION_TIMEOUT_MINUTES

(* A request that met an expired session has removed the id from both      *)
(* maps, cleared the request session and failed with 401                   *)
ExpiredFailsWith401 ==
  \A h \in Handlers :
    (handlers[h].kind = "request" /\ handlers[h].expired
       /\ handlers[h].pc = "done") =>
      /\ handlers[h].status = 401
      /\ handlers[h].cleared
      /\ handlers[h].session_id[1] \notin user_sessions
      /\ handlers[h].session_id[1] \notin DOMAIN session_timestamps

(* A failed login leaves no entry for the caller in either map *)
FailedLoginLeavesNothing ==
  \A h \in Handlers :
    (handlers[h].kind = "login" /\ handlers[h].pc = "done"
       /\ handlers[h].status = 401) =>
      /\ handlers[h].client = None
      /\ handlers[h].session_id # None =>
           /\ handlers[h].session_id[1] \notin user_sessions
           /\ handlers[h].session_id[1] \notin DOMAIN session_timestamps

(* An id that was removed is never stored again, and a request gets a      *)
(* client only for an id that is stored and not expired, 401 for an id     *)
(* that is not stored                                                      *)
LaterRequestsFail ==
  /\ \A s \in SessionIds :
       (s <= issued /\ s \notin user_sessions) => s \notin user_sessions'
  /\ \A h \in Handlers :
       (handlers[h].pc = "idle" /\ handlers'[h].kind = "request") =>
         /\ handlers'[h].client # None =>
              cookie[1] \in user_sessions /\ ~Expired(cookie[1])
         /\ (cookie # None /\ cookie[1] \notin user_sessions) =>
              handlers'[h].status = 401

(* C30: get_client_from_session never returns a client of a session older  *)
(* than SESSION_TIMEOUT_MINUTES; on meeting such a session it removes the  *)
(* id from user_sessions and session_timestamps, clears the request        *)
(* session and fails with 401; every later request with that id fails      *)
(* with 401 until a new login succeeds; a failed login leaves no entry for *)
(* the caller in either map                                                *)
C30_SessionExpiry ==
  /\ [](NeverReturnsExpired /\ ExpiredFailsWith401 /\ FailedLoginLeavesNothing)
  /\ [][LaterRequestsFail]_vars

====
